---- MODULE Spec2Model ----
(***************************************************************************)
(* RealtimeEffectState (src/src/effects/RealtimeEffectState.cpp): the      *)
(* exchange of effect settings between the main (control) thread and the   *)
(* audio (worker) thread through two MessageBuffer channels, and the       *)
(* realtime lifecycle that frames it.                                      *)
(*                                                                         *)
(* The control thread runs GetAccess, Access::Set, Access::Get,            *)
(* Access::Flush, Initialize and Finalize, one call at a time.  The worker *)
(* runs ProcessStart and ProcessEnd, block after block, between an         *)
(* Initialize call and the Finalize call that ends the scope               *)
(* (EnsureInstance copies the settings "while worker isn't yet running",   *)
(* Finalize cleans up "a state not now used in processing").               *)
(*                                                                         *)
(* MessageBuffer.h is not among the sources: the channel is modelled from  *)
(* the specification (two storage cells, one designated current, neither   *)
(* side ever waiting for the other, a cell never used by both sides at     *)
(* once) and from the source's remark that slot assignment and reading     *)
(* happen "during MessageBuffer's busying of the slot".                    *)
(***************************************************************************)
EXTENDS Integers, Sequences, FiniteSets, TLC

\* ------------------------------------------------------------- bounds
\* Number of Access::Set calls with a value in one behaviour.
MaxSets == 2
\* Failed attempts to busy a slot that are counted in one channel operation.
MaxSpin == 2
\* Initialization scopes (Initialize calls) in one behaviour.
MaxScopes == 2
\* The same two numbers in the specification with fairness.
FairSets == 1
FairScopes == 1
\* The specification of the Access handles: Set calls and scopes.
HandleSets == 1
HandleScopes == 1
\* The tracks: tracks, channels of a track, audio inputs or outputs of the
\* instance, frames of one Process call, frames of one chunk (the block size
\* of the instance), frames of latency the instance reports.
MaxTracks == 2
MaxChans == 2
MaxArity == 2
MaxSamples == 3
BlockSize == 2
MaxLatency == 1
\* The specification of the tracks: AddTrack calls, Process calls, scopes.
TrackAdds == 1
TrackBlocks == 1
TrackScopes == 2
\* The specification of the streams of frames, the same three numbers.
StreamAdds == 2
StreamBlocks == 2
StreamScopes == 1
\* The specification of the allocator: channels, and audio inputs or outputs.
AllocChans == 5
AllocArity == 3
\* The specification of the loops of AddTrack and Process, taken step by
\* step: calls, channels, audio inputs or outputs, frames of a call, the
\* block size of the instance, and the width in bits given to the unsigned
\* counters of processors and calls.
LoopCalls == 2
LoopChans == 3
LoopArity == 2
LoopSamples == 3
LoopBlock == 2
LoopBits == 3

\* ------------------------------------------------------------- values
Slots == {0, 1}

\* EffectSettings: the opaque content (whether it holds a value), the generic
\* "extra" activation flag, and, as a mark on the content for stating the
\* properties, the number of the Set call that supplied it (0: not from a Set).
Settings(v, a, r) == [val |-> v, active |-> a, rev |-> r]
\* A default-constructed EffectSettings holds no value.
EmptySettings == Settings(FALSE, TRUE, 0)
HasValue(s) == s.val
\* The settings a caller may pass to Access::Set.
SetInputs == {Settings(v, a, 0) : v \in BOOLEAN, a \in BOOLEAN}

SettingsAndCounter(s, c) == [settings |-> s, counter |-> c]
NoSettings == SettingsAndCounter(EmptySettings, 0)
\* Response: the counter echoed by the worker and the outputs object.
Response(c, o) == [counter |-> c, pOutputs |-> o]
Null == "null"
Outputs == "outputs"

\* A default-constructed MessageBuffer<Data>.
NewChannel(d) == [data |-> [i \in Slots |-> d], busy |-> [i \in Slots |-> FALSE], last |-> 0]

\* The values a member without initializer may hold.
Indeterminate == {0, MaxSets}

Tracks == 1..MaxTracks
Min(a, b) == IF a < b THEN a ELSE b

\* mGroups: the entry of a track, when there is one, holds the index of its
\* first processor (the sample rate is left out).
NoGroup == [has |-> FALSE, first |-> 0]
Group(first) == [has |-> TRUE, first |-> first]
\* mLatency: an optional count of frames still to discard.
NoLatency == [has |-> FALSE, left |-> 0]
Latency(n) == [has |-> TRUE, left |-> n]

\* What is remembered of an AddTrack or Process call: the track and channel
\* count passed, the (inputOffset, outputOffset) pairs the allocator passed
\* to its callback, the plugin's answers to add-processor, the processor
\* indices added or passed to realtime-process, whether realtime-initialize
\* was invoked, whether an instance was returned, whether the input was
\* copied to the output, the frames passed and the count returned; of a
\* ProcessStart or ProcessEnd, the activity computed, the transition hook
\* invoked ("resume", "suspend" or "none") and its answer, whether
\* realtime-process-start (realtime-process-end) was called, and the boolean
\* returned.
Call(op, track, chans) ==
  [op |-> op, track |-> track, chans |-> chans, visits |-> <<>>,
   answers |-> <<>>, procs |-> <<>>, init |-> FALSE, instance |-> FALSE,
   copied |-> FALSE, hooks |-> 0, numSamples |-> 0, result |-> 0,
   active |-> FALSE, hook |-> "none", hookOk |-> FALSE, called |-> FALSE,
   ret |-> FALSE]
NoCall == Call("none", 0, 0)
\* A pointer into the buffer of a channel, off frames from its start, or
\* nullptr.
Ptr(chan) == [null |-> FALSE, chan |-> chan, off |-> 0]
NullPtr == [null |-> TRUE, chan |-> 0, off |-> 0]
\* A call of AddTrack or Process in its loops.  pc: "idle" (no call yet),
\* "alloc" (at the test of AllocateChannelsToProcessors), "chunk" (at the
\* test of the loop over blocks), "done" (returned).  blockSize is what the
\* instance answers to GetBlockSize; callsLeft the calls still to be made.
\* indx, ondx, processor, block, len are the local variables; first is the
\* processor index when the call began; cnt the frames of the last chunk
\* and sum the frames of the chunks for the processor in hand, calls the
\* realtime-process calls of the call;
\* clientIn and clientOut the pointers handed to the processor, given how
\* many slots each output channel was handed to; result what was returned.
NoLoop ==
  [pc |-> "idle", op |-> "none", chans |-> 0, numSamples |-> 0,
   blockSize |-> 0, callsLeft |-> 0, indx |-> 0, ondx |-> 0, first |-> 0,
   processor |-> 0, block |-> 0, len |-> 0, cnt |-> 0, sum |-> 0,
   calls |-> 0, clientIn |-> <<>>, clientOut |-> <<>>, given |-> <<>>,
   result |-> 0]
\* What is remembered of the successful AddTrack of a track.
NotAdded == [ok |-> FALSE, chans |-> 0, visits |-> <<>>, procs |-> <<>>]
\* The latency queries of a scope: their number, the realtime-process calls
\* of the scope (counted up to 2), the number of the call that the (last)
\* query followed, and the latency reported.
NoQueries == [queries |-> 0, chunks |-> 0, queriedAt |-> 0, reported |-> 0]
\* The frames of a track in a scope: passed in and reported valid.
NoStream == [fed |-> 0, valid |-> 0]

VARIABLES
  \* RealtimeEffectState
  mMainSettings, mWorkerSettings, mInitialized, mLastActive, instanceAlive,
  \* AccessState
  hasAccessState, mLastSettings, mCounter, mChannelFromMain, mChannelToMain,
  \* the control thread: where it is, the call it is in, the slot index it
  \* holds, its failed attempts to busy a slot
  cpc, cCall, cIdx, cSpin,
  \* the worker thread
  wpc, wIdx, wSpin,
  \* the callers' protocol: "none", "setup" (Initialize was called),
  \* "processing" (the worker has started its blocks); the calls left
  scope, scopesLeft, setsLeft,
  \* history, for stating the properties
  lastSetArg, getResult, flushDidRead, rdStartDone, rdStartClean, rdBefore,
  \* RealtimeEffectState: the plugin was found; the state object exists; the
  \* Access handle the control thread holds ("none", "state", "dummy")
  mPlugin, stateAlive, handle,
  \* RealtimeEffectState: the groups of processors of the tracks
  mGroups, mCurrentProcessor, mLatency,
  \* the instance: its numbers of audio inputs and outputs, and whether its
  \* realtime-process takes every chunk in full
  numAudioIn, numAudioOut, processesFully,
  \* the AddTrack and Process calls left
  addsLeft, blocksLeft,
  \* history of the tracks: the track each processor of the instance was
  \* added for, what the last successful AddTrack of each track did, the last
  \* Initialize, AddTrack, Process or Finalize call when it has just returned,
  \* the latency queries of the scope, the frames of each track in the scope
  processors, added, lastCall, latencyHist, stream,
  \* history of the block: what the ProcessStart of the block in progress
  \* returned; the last transition hook that the instance has accepted
  \* ("none", "resume", "suspend")
  blockStarted, lastHook,
  \* a call of AddTrack or Process taken step by step: where it is in its
  \* loops, its arguments and its local variables
  loop

stateVars == <<mMainSettings, mWorkerSettings, mInitialized, mLastActive, instanceAlive>>
accessVars == <<hasAccessState, mLastSettings, mCounter>>
chanVars == <<mChannelFromMain, mChannelToMain>>
ctlVars == <<cpc, cCall, cIdx, cSpin>>
wrkVars == <<wpc, wIdx, wSpin>>
envVars == <<scope, scopesLeft, setsLeft>>
ctlHist == <<lastSetArg, getResult, flushDidRead>>
wrkHist == <<rdStartDone, rdStartClean, rdBefore>>
histVars == <<ctlHist, wrkHist>>
effectVars == <<mPlugin, stateAlive, handle>>
trackVars == <<mGroups, mCurrentProcessor, mLatency>>
pluginVars == <<numAudioIn, numAudioOut, processesFully>>
trackHist == <<addsLeft, blocksLeft, processors, added, lastCall, latencyHist, stream>>
blockHist == <<blockStarted, lastHook>>
loopVars == <<loop>>
extVars == <<effectVars, trackVars, pluginVars, loopVars, trackHist, blockHist>>
vars == <<stateVars, accessVars, chanVars, ctlVars, wrkVars, envVars, histVars, extVars>>

\* ------------------------------------------------ MessageBuffer (channel)
\* Write and Read start from the slot written last: Write prefers the other
\* slot, Read prefers that one.
MessageBufferWriteFirst(ch) == ch.last
MessageBufferReadFirst(ch) == 1 - ch.last

\* One attempt to busy a slot: the other slot than the one tried before.
MessageBufferNextSlot(idx) == 1 - idx
MessageBufferWasBusy(ch, idx) == ch.busy[idx]
MessageBufferBusy(ch, idx) == [ch EXCEPT !.busy[idx] = TRUE]
\* A Write or Read that forgets to clear the busy flag of its slot.
MessageBufferKeepsBusy(ch, idx) == ch

MessageBufferRelease(ch, idx) == [ch EXCEPT !.busy[idx] = FALSE]
MessageBufferSetLast(ch, idx) == [ch EXCEPT !.last = idx]

\* A whole Write with no reader about (as during AccessState::Initialize).
MessageBufferWrite(ch, d) ==
  LET idx == MessageBufferNextSlot(MessageBufferWriteFirst(ch))
  IN  [ch EXCEPT !.data[idx] = d, !.last = idx]

\* ------------------------------------------------------------ initial state
\* RealtimeEffectState::GetEffect: a plugin not yet found is looked up again;
\* when it is found its settings are made, the activation preserved.
GetEffect(found, made) ==
  IF ~mPlugin /\ found
  THEN [plugin |-> TRUE,
        main |-> SettingsAndCounter(
                   [made EXCEPT !.active = mMainSettings.settings.active], 0)]
  ELSE [plugin |-> mPlugin, main |-> mMainSettings]

\* What MakeSettings of a plugin may return.
MadeSettings == {Settings(v, TRUE, 0) : v \in BOOLEAN}

\* After the constructor: with a plugin found, GetEffect has made the
\* settings; the activation is the default or the one read from a project.
InitEffect(active) ==
  mMainSettings = SettingsAndCounter(Settings(mPlugin, active, 0), 0)

InitState ==
  /\ mWorkerSettings = NoSettings
  /\ mInitialized = FALSE
  /\ mLastActive = FALSE
  /\ instanceAlive = FALSE
  /\ hasAccessState = FALSE
  /\ mLastSettings = NoSettings
  /\ mCounter = 0
  /\ mChannelFromMain = NewChannel(NoSettings)
  /\ mChannelToMain = NewChannel(Response(0, Null))
  /\ cpc = "idle" /\ cCall = "none" /\ cIdx = 0 /\ cSpin = 0
  /\ wpc = "idle" /\ wIdx = 0 /\ wSpin = 0
  /\ scope = "none"
  /\ lastSetArg = EmptySettings
  /\ getResult = EmptySettings
  /\ flushDidRead = FALSE
  /\ rdStartDone = 0 /\ rdStartClean = TRUE /\ rdBefore = NoSettings
  /\ stateAlive = TRUE
  /\ handle = "none"
  /\ mGroups = [t \in Tracks |-> NoGroup]
  /\ mCurrentProcessor = 0
  /\ mLatency = NoLatency
  /\ processors = <<>>
  /\ added = [t \in Tracks |-> NotAdded]
  /\ lastCall = NoCall
  /\ blockStarted = FALSE
  /\ lastHook = "none"
  /\ latencyHist = NoQueries
  /\ stream = [t \in Tracks |-> NoStream]

\* No tracks: the worker runs ProcessStart and ProcessEnd only.
NoTracks ==
  /\ loop = NoLoop
  /\ mPlugin = TRUE
  /\ numAudioIn = 1 /\ numAudioOut = 1 /\ processesFully = TRUE
  /\ addsLeft = 0 /\ blocksLeft = 0

Init == NoTracks /\ InitEffect(TRUE) /\ InitState /\ scopesLeft = MaxScopes /\ setsLeft = MaxSets

\* ------------------------------------------------------------ AccessState
\* Whether the plugin makes an outputs object (MakeOutputs may return none).
HasOutputs == TRUE

\* An Initialize that writes each channel once only.
AccessStateInitializeOnce(settings, pOutputs) ==
  LET seed == [settings EXCEPT !.counter = 0]
      clone == IF pOutputs THEN Outputs ELSE Null
  IN  [main |-> seed,
       last |-> seed,
       toMain |-> MessageBufferWrite(mChannelToMain, Response(0, clone)),
       fromMain |-> MessageBufferWrite(mChannelFromMain, seed)]

\* AccessState::Initialize: the counter is reset, the settings are remembered
\* and each channel is written twice.
AccessStateInitialize(settings, pOutputs) ==
  LET seed == [settings EXCEPT !.counter = 0]
      clone == IF pOutputs THEN Outputs ELSE Null
  IN  [main |-> seed,
       last |-> seed,
       toMain |-> MessageBufferWrite(
                    MessageBufferWrite(mChannelToMain, Response(0, clone)),
                    Response(0, clone)),
       fromMain |-> MessageBufferWrite(
                      MessageBufferWrite(mChannelFromMain, seed), seed)]

\* ToMainSlot::operator=(CounterAndOutputs&&): the counter is assigned; the
\* slot keeps its own outputs object, which takes the contents of the
\* worker's when both exist.
\* An assignment that leaves the counter of the slot as it was.
ToMainSlotKeepsCounter(slot, counter) == slot

ToMainSlotAssign(slot, counter) == [slot EXCEPT !.counter = counter]

\* A reader that counts one more than the slot holds.
ToMainSlotReaderAhead(slot) == slot.counter + 1

\* ToMainSlot::Reader: the counter of the slot goes to mCounter.
ToMainSlotReader(slot) == slot.counter

\* FromMainSlot::operator=(SettingsAndCounter&&) swaps the two members in.
FromMainSlotAssignSettings(slot, arg) == [slot EXCEPT !.settings = arg.settings]
\* A swap that exchanges the settings only.
FromMainSlotKeepsCounter(slot, arg) == slot

FromMainSlotAssignCounter(slot, arg) == [slot EXCEPT !.counter = arg.counter]

\* FromMainSlot::Reader: nothing to do when the counter is the worker's own.
\* The comparison of "copy once" turned around.
ReaderSkipsWhenDifferent(slot, settings) == slot.counter # settings.counter

ReaderSkips(slot, settings) == slot.counter = settings.counter
\* A copy that leaves the worker's counter behind.
ReaderCopyForgetsCounter(slot, settings) == settings

ReaderCopyCounter(slot, settings) == [settings EXCEPT !.counter = slot.counter]
\* CopySettingsContents, then the extra member.
ReaderCopySettings(slot, settings) ==
  [settings EXCEPT !.settings = slot.settings]

\* RealtimeEffectState::IsActive
IsActive(ws) == ws.settings.active

\* ------------------------------------------------------ control thread
MainWritePcs == {"mw_try", "mw_settings", "mw_counter", "mw_last", "mw_rel"}
MainReadPcs == {"mr_try", "mr_data", "mr_rel"}
WorkerReadPcs == {"wr_try", "wr_cmp", "wr_copy", "wr_rel"}
WorkerWritePcs == {"ww_try", "ww_data", "ww_last", "ww_rel"}

\* The counter of the last Set whose MainWrite has returned.
DoneCounter == IF cpc \in MainWritePcs THEN mLastSettings.counter - 1
               ELSE mLastSettings.counter

Bump(n) == IF n < MaxSpin THEN n + 1 ELSE n

\* RealtimeEffectState::GetAccess returns a handle that refers to no state
\* when there is no plugin or no settings value.
GetAccessDummy(plugin, settings) == ~plugin \/ ~HasValue(settings)

\* RealtimeEffectState::GetAccess: the AccessState is made the first time.
GetAccess ==
  /\ cpc = "idle"
  /\ stateAlive
  /\ \E found \in BOOLEAN, made \in MadeSettings :
       LET e == GetEffect(found, made)
       IN  /\ mPlugin' = e.plugin
           /\ IF GetAccessDummy(e.plugin, e.main.settings)
              THEN /\ handle' = "dummy"
                   /\ mMainSettings' = e.main
                   /\ UNCHANGED <<accessVars, chanVars, lastSetArg>>
              ELSE /\ handle' = "state"
                   /\ IF hasAccessState
                      THEN /\ mMainSettings' = e.main
                           /\ UNCHANGED <<accessVars, chanVars, lastSetArg>>
                      ELSE /\ LET r == AccessStateInitialize(e.main, HasOutputs)
                              IN  /\ mMainSettings' = r.main
                                  /\ mLastSettings' = r.last
                                  /\ mChannelToMain' = r.toMain
                                  /\ mChannelFromMain' = r.fromMain
                           /\ hasAccessState' = TRUE
                           \* mCounter has no initializer
                           /\ mCounter' \in Indeterminate
                           /\ lastSetArg' = e.main.settings
  /\ UNCHANGED <<mWorkerSettings, mInitialized, mLastActive, instanceAlive>>
  /\ UNCHANGED <<ctlVars, wrkVars, envVars, getResult, flushDidRead, wrkHist>>
  /\ UNCHANGED <<stateAlive, trackVars, pluginVars, loopVars, trackHist, blockHist>>

\* A handle that takes the state for granted.
AccessLocksAnyway == handle # "none"

\* mwState.lock() and GetAccessState() of an Access handle: whether the
\* handle reaches a state that lives and has its AccessState.
AccessLocks == handle = "state" /\ stateAlive /\ hasAccessState


\* The argument Set hands to MainWrite: a copy of the last settings.
MainWriteArg == mLastSettings

\* A Set without the test that protects the invariant.
SetIgnoresNothing(settings) == FALSE

\* Set returns at once when the settings hold no value.
SetIgnores(settings) == ~HasValue(settings)

\* A Set that forgets to count.
SetCounterKept(counter) == counter

\* ++lastSettings.counter
SetCounter(counter) == counter + 1

\* Access::Set, up to MainWrite's choice of the first slot to try.  The
\* content is marked with the number of this Set.
AccessSet(settings) ==
  /\ cpc = "idle"
  /\ handle # "none"
  /\ getResult' = EmptySettings
  /\ IF SetIgnores(settings)
     THEN /\ cCall' = IF AccessLocks THEN "SetEmpty" ELSE "SetNoState"
          /\ UNCHANGED <<mLastSettings, cpc, cIdx, lastSetArg, setsLeft>>
     ELSE IF ~AccessLocks
     THEN /\ cCall' = "SetNoState"
          /\ UNCHANGED <<mLastSettings, cpc, cIdx, lastSetArg, setsLeft>>
     ELSE /\ setsLeft > 0
          /\ setsLeft' = setsLeft - 1
          /\ LET marked == [settings EXCEPT !.rev = lastSetArg.rev + 1]
             IN  /\ mLastSettings' = SettingsAndCounter(marked, SetCounter(mLastSettings.counter))
                 /\ lastSetArg' = marked
          /\ cCall' = "Set"
          /\ cIdx' = MessageBufferWriteFirst(mChannelFromMain)
          /\ cpc' = "mw_try"
  /\ UNCHANGED <<stateVars, hasAccessState, mCounter, chanVars, cSpin, wrkVars>>
  /\ UNCHANGED <<scope, scopesLeft, flushDidRead, wrkHist>>
  /\ UNCHANGED extVars

Set == \E settings \in SetInputs : AccessSet(settings)

\* One attempt of the control thread to busy a slot of channel ch.
ControlTry(ch, next) ==
  LET idx == MessageBufferNextSlot(cIdx)
  IN  /\ cIdx' = idx
      /\ IF MessageBufferWasBusy(ch, idx)
         THEN cpc' = cpc /\ cSpin' = Bump(cSpin)
         ELSE cpc' = next /\ cSpin' = cSpin

\* AccessState::MainWrite: MessageBuffer::Write on mChannelFromMain.
MainWriteTry ==
  /\ cpc = "mw_try"
  /\ ControlTry(mChannelFromMain, "mw_settings")
  /\ mChannelFromMain' = MessageBufferBusy(mChannelFromMain, cIdx')
  /\ UNCHANGED <<stateVars, accessVars, mChannelToMain, cCall, wrkVars, envVars, histVars>>
  /\ UNCHANGED extVars

MainWriteSettings ==
  /\ cpc = "mw_settings"
  /\ mChannelFromMain' = [mChannelFromMain EXCEPT
       !.data[cIdx] = FromMainSlotAssignSettings(@, MainWriteArg)]
  /\ cpc' = "mw_counter"
  /\ UNCHANGED <<stateVars, accessVars, mChannelToMain, cCall, cIdx, cSpin, wrkVars, envVars, histVars>>
  /\ UNCHANGED extVars

MainWriteCounter ==
  /\ cpc = "mw_counter"
  /\ mChannelFromMain' = [mChannelFromMain EXCEPT
       !.data[cIdx] = FromMainSlotAssignCounter(@, MainWriteArg)]
  /\ cpc' = "mw_last"
  /\ UNCHANGED <<stateVars, accessVars, mChannelToMain, cCall, cIdx, cSpin, wrkVars, envVars, histVars>>
  /\ UNCHANGED extVars

MainWriteLast ==
  /\ cpc = "mw_last"
  /\ mChannelFromMain' = MessageBufferSetLast(mChannelFromMain, cIdx)
  /\ cpc' = "mw_rel"
  /\ UNCHANGED <<stateVars, accessVars, mChannelToMain, cCall, cIdx, cSpin, wrkVars, envVars, histVars>>
  /\ UNCHANGED extVars

\* The slot is released and Set returns.
MainWriteRelease ==
  /\ cpc = "mw_rel"
  /\ mChannelFromMain' = MessageBufferRelease(mChannelFromMain, cIdx)
  /\ cpc' = "idle"
  /\ cCall' = "none"
  /\ cIdx' = 0
  /\ cSpin' = 0
  /\ UNCHANGED <<stateVars, accessVars, mChannelToMain, wrkVars, envVars, histVars>>
  /\ UNCHANGED extVars

\* What Access::Get returns.
\* A Get that returns the published settings of the state.
AccessGetPublished == mMainSettings.settings

AccessGetResult == mLastSettings.settings

\* What Access::Get returns when it reaches no state: "static EffectSettings
\* empty".
AccessGetEmpty == EmptySettings

\* What the control thread is calling, or called last: a Get is marked by
\* the call that preceded it, and by whether it has returned.
GetMark(call, returned) ==
  CASE call \in {"Flush", "FlushGet"} -> IF returned THEN "FlushGot" ELSE "FlushGet"
    [] call \in {"FlushU", "FlushUGet"} -> IF returned THEN "FlushUGot" ELSE "FlushUGet"
    [] OTHER -> IF returned THEN "Got" ELSE "Get"

\* Access::Get: when initialized, one FlushAttempt first (up to MainRead's
\* choice of the first slot to try).
AccessGet ==
  /\ cpc = "idle"
  /\ handle # "none"
  /\ IF ~AccessLocks
     THEN /\ cCall' = "GetNoState"
          /\ getResult' = AccessGetEmpty
          /\ UNCHANGED <<cpc, cIdx>>
     ELSE IF mInitialized
     THEN /\ cCall' = GetMark(cCall, FALSE)
          /\ cIdx' = MessageBufferReadFirst(mChannelToMain)
          /\ cpc' = "mr_try"
          /\ getResult' = EmptySettings
     ELSE /\ cCall' = GetMark(cCall, TRUE)
          /\ getResult' = AccessGetResult
          /\ UNCHANGED <<cpc, cIdx>>
  /\ UNCHANGED <<stateVars, accessVars, chanVars, cSpin, wrkVars, envVars>>
  /\ UNCHANGED <<lastSetArg, flushDidRead, wrkHist>>
  /\ UNCHANGED extVars

\* A Flush that polls whether or not the state is initialized.
FlushPollsAlways == TRUE

\* Flush polls only when the state is initialized.
FlushPolls == mInitialized

\* Access::Flush.
AccessFlush ==
  /\ cpc = "idle"
  /\ handle # "none"
  /\ cCall' = IF ~AccessLocks THEN "FlushNoState"
              ELSE IF mInitialized THEN "Flush" ELSE "FlushU"
  /\ getResult' = EmptySettings
  /\ IF ~AccessLocks
     THEN UNCHANGED <<cpc, cIdx, flushDidRead>>
     ELSE IF FlushPolls
     THEN /\ cIdx' = MessageBufferReadFirst(mChannelToMain)
          /\ cpc' = "mr_try"
          /\ flushDidRead' = TRUE
     ELSE /\ cpc' = "fl_publish"
          /\ flushDidRead' = FALSE
          /\ UNCHANGED cIdx
  /\ UNCHANGED <<stateVars, accessVars, chanVars, cSpin, wrkVars, envVars>>
  /\ UNCHANGED <<lastSetArg, wrkHist>>
  /\ UNCHANGED extVars

\* AccessState::MainRead: MessageBuffer::Read on mChannelToMain.
MainReadTry ==
  /\ cpc = "mr_try"
  /\ ControlTry(mChannelToMain, "mr_data")
  /\ mChannelToMain' = MessageBufferBusy(mChannelToMain, cIdx')
  /\ UNCHANGED <<stateVars, accessVars, mChannelFromMain, cCall, wrkVars, envVars, histVars>>
  /\ UNCHANGED extVars

MainReadData ==
  /\ cpc = "mr_data"
  /\ mCounter' = ToMainSlotReader(mChannelToMain.data[cIdx])
  /\ cpc' = "mr_rel"
  /\ UNCHANGED <<stateVars, hasAccessState, mLastSettings, chanVars, cCall, cIdx, cSpin, wrkVars, envVars, histVars>>
  /\ UNCHANGED extVars

\* Access::FlushAttempt's answer, after MainRead.
\* A FlushAttempt that does not compare the counters.
FlushAttemptSucceeds == TRUE

FlushAttempt == mCounter = mLastSettings.counter

\* The slot is released.  Get returns; Flush publishes when the echo is
\* complete and sleeps otherwise.
MainReadRelease ==
  /\ cpc = "mr_rel"
  /\ mChannelToMain' = MessageBufferRelease(mChannelToMain, cIdx)
  /\ cIdx' = 0
  /\ cSpin' = 0
  /\ IF cCall \in {"Get", "FlushGet", "FlushUGet"}
     THEN /\ cpc' = "idle"
          /\ cCall' = GetMark(cCall, TRUE)
          /\ getResult' = AccessGetResult
     ELSE /\ cpc' = IF FlushAttempt THEN "fl_publish" ELSE "fl_sleep"
          /\ UNCHANGED <<cCall, getResult>>
  /\ UNCHANGED <<stateVars, accessVars, mChannelFromMain, wrkVars, envVars>>
  /\ UNCHANGED <<lastSetArg, flushDidRead, wrkHist>>
  /\ UNCHANGED extVars

\* sleep_for(50ms), then the next FlushAttempt.
FlushSleep ==
  /\ cpc = "fl_sleep"
  /\ cIdx' = MessageBufferReadFirst(mChannelToMain)
  /\ cpc' = "mr_try"
  /\ UNCHANGED <<stateVars, accessVars, chanVars, cCall, cSpin, wrkVars, envVars, histVars>>
  /\ UNCHANGED extVars

\* mMainSettings.Set(mLastSettings), and Flush returns.
FlushPublish ==
  /\ cpc = "fl_publish"
  /\ mMainSettings' = mLastSettings
  /\ cpc' = "idle"
  /\ flushDidRead' = FALSE
  /\ UNCHANGED <<mWorkerSettings, mInitialized, mLastActive, instanceAlive>>
  /\ UNCHANGED <<accessVars, chanVars, cCall, cIdx, cSpin, wrkVars, envVars>>
  /\ UNCHANGED <<lastSetArg, getResult, wrkHist>>
  /\ UNCHANGED extVars

\* ------------------------------------------------------------ lifecycle
\* An EnsureInstance that initializes only an instance it has made itself.
EnsureInstanceInitializesNew == ~mInitialized /\ ~instanceAlive

\* EnsureInstance sets out to initialize whenever the state is not
\* initialized.
EnsureInstanceInitializes == ~mInitialized

\* An EnsureInstance that does not ask whether a plugin was found.
EnsureInstanceUnbound(made, ok) ==
  [worker |-> mMainSettings,
   lastActive |-> IsActive(mMainSettings),
   alive |-> instanceAlive \/ (made /\ ok),
   initialized |-> (instanceAlive \/ made) /\ ok,
   init |-> instanceAlive \/ made,
   instance |-> (instanceAlive \/ made) /\ ok]

\* RealtimeEffectState::EnsureInstance: [worker, lastActive, alive,
\* initialized] after the call, whether realtime-initialize was invoked and
\* whether an instance is returned; made and ok are the plugin's answers to
\* MakeInstance and RealtimeInitialize.
EnsureInstance(made, ok) ==
  IF ~mPlugin
  THEN [worker |-> mWorkerSettings, lastActive |-> mLastActive,
        alive |-> instanceAlive, initialized |-> mInitialized,
        init |-> FALSE, instance |-> FALSE]
  ELSE IF EnsureInstanceInitializes
  THEN [worker |-> mMainSettings,
        lastActive |-> IsActive(mMainSettings),
        \* an instance made here and refused is returned to nobody
        alive |-> instanceAlive \/ (made /\ ok),
        initialized |-> (instanceAlive \/ made) /\ ok,
        init |-> instanceAlive \/ made,
        instance |-> (instanceAlive \/ made) /\ ok]
  ELSE [worker |-> mWorkerSettings, lastActive |-> mLastActive,
        alive |-> instanceAlive, initialized |-> mInitialized,
        init |-> FALSE, instance |-> instanceAlive]

\* RealtimeEffectState::Initialize, called by the main thread before the
\* worker starts.  Without a plugin it returns at once.
Initialize ==
  /\ cpc = "idle" /\ wpc = "idle"
  /\ stateAlive
  /\ scope = "none"
  /\ scopesLeft > 0
  /\ \E made \in BOOLEAN, ok \in BOOLEAN :
       LET r == EnsureInstance(made, ok)
       IN  /\ mWorkerSettings' = r.worker
           /\ mLastActive' = r.lastActive
           /\ instanceAlive' = r.alive
           /\ mInitialized' = r.initialized
           /\ lastCall' = [Call("Initialize", 0, 0) EXCEPT
                             !.init = r.init, !.instance = r.instance]
  /\ IF mPlugin
     THEN /\ mCurrentProcessor' = 0
          /\ mGroups' = [t \in Tracks |-> NoGroup]
          /\ mLatency' = NoLatency
          /\ added' = [t \in Tracks |-> NotAdded]
     ELSE UNCHANGED <<trackVars, added>>
  /\ scope' = "setup"
  /\ scopesLeft' = scopesLeft - 1
  /\ processors' = <<>>
  /\ latencyHist' = NoQueries
  /\ stream' = [t \in Tracks |-> NoStream]
  /\ UNCHANGED <<mMainSettings, accessVars, chanVars, ctlVars, wrkVars, setsLeft, histVars>>
  /\ UNCHANGED <<effectVars, pluginVars, loopVars, addsLeft, blocksLeft, blockHist>>

\* What Finalize leaves in mInitialized: it returns early without an instance.
FinalizeInitialized == IF instanceAlive THEN FALSE ELSE mInitialized
\* What Finalize leaves in mLatency.
FinalizeLatency == IF instanceAlive THEN NoLatency ELSE mLatency

\* A Finalize that takes the worker's settings over only when it can tell
\* the instance.
FinalizeMainSettingsOfInstance ==
  IF instanceAlive THEN mWorkerSettings ELSE mMainSettings

\* mMainSettings = mWorkerSettings
FinalizeMainSettings == mWorkerSettings

\* RealtimeEffectState::Finalize, called by the main thread when the worker
\* has stopped; finOk is the answer of RealtimeFinalize.
Finalize ==
  /\ cpc = "idle" /\ wpc = "idle"
  /\ scope # "none"
  /\ \E finOk \in BOOLEAN :
       lastCall' = [Call("Finalize", 0, 0) EXCEPT
                      !.called = instanceAlive, !.ret = (instanceAlive /\ finOk)]
  /\ mMainSettings' = FinalizeMainSettings
  /\ mGroups' = [t \in Tracks |-> NoGroup]
  /\ mCurrentProcessor' = 0
  /\ mInitialized' = FinalizeInitialized
  /\ mLatency' = FinalizeLatency
  /\ scope' = "none"
  /\ processors' = <<>>
  /\ added' = [t \in Tracks |-> NotAdded]
  /\ latencyHist' = NoQueries
  /\ stream' = [t \in Tracks |-> NoStream]
  /\ UNCHANGED <<mWorkerSettings, mLastActive, instanceAlive>>
  /\ UNCHANGED <<accessVars, chanVars, ctlVars, wrkVars, scopesLeft, setsLeft, histVars>>
  /\ UNCHANGED <<effectVars, pluginVars, loopVars, addsLeft, blocksLeft, blockHist>>

\* The last owner of the instance lets it go: mwInstance expires, and the
\* processors go with the instance.
InstanceExpires ==
  /\ cpc = "idle" /\ wpc = "idle"
  /\ instanceAlive
  /\ instanceAlive' = FALSE
  /\ processors' = <<>>
  /\ lastCall' = NoCall
  /\ UNCHANGED <<mMainSettings, mWorkerSettings, mInitialized, mLastActive>>
  /\ UNCHANGED <<accessVars, chanVars, ctlVars, wrkVars, envVars, histVars>>
  /\ UNCHANGED <<effectVars, trackVars, pluginVars, loopVars>>
  /\ lastHook' = "none"
  /\ UNCHANGED <<addsLeft, blocksLeft, added, latencyHist, stream, blockStarted>>

\* The last owner of the state lets it go, between two scopes: the handles
\* that were given out remain.
StateExpires ==
  /\ cpc = "idle" /\ wpc = "idle"
  /\ scope = "none"
  /\ stateAlive
  /\ stateAlive' = FALSE
  /\ UNCHANGED <<stateVars, accessVars, chanVars, ctlVars, wrkVars, envVars, histVars>>
  /\ UNCHANGED <<mPlugin, handle, trackVars, pluginVars, loopVars, trackHist, blockHist>>

\* ------------------------------------------------------- worker thread
\* One attempt of the worker to busy a slot of channel ch.
WorkerTry(ch, next) ==
  LET idx == MessageBufferNextSlot(wIdx)
  IN  /\ wIdx' = idx
      /\ IF MessageBufferWasBusy(ch, idx)
         THEN wpc' = wpc /\ wSpin' = Bump(wSpin)
         ELSE wpc' = next /\ wSpin' = wSpin

\* RealtimeEffectState::ProcessStart begins: WorkerRead when there is an
\* AccessState (up to the choice of the first slot to try).
ProcessStart ==
  /\ wpc = "idle"
  /\ scope # "none"
  /\ scope' = "processing"
  /\ IF hasAccessState
     THEN /\ wpc' = "wr_try"
          /\ wIdx' = MessageBufferReadFirst(mChannelFromMain)
          /\ rdStartDone' = DoneCounter
          /\ rdStartClean' = (cpc \notin MainWritePcs)
          /\ rdBefore' = mWorkerSettings
     ELSE /\ wpc' = "ps_active"
          /\ UNCHANGED <<wIdx, wrkHist>>
  /\ UNCHANGED <<stateVars, accessVars, chanVars, ctlVars, wSpin, scopesLeft, setsLeft, ctlHist>>
  /\ lastCall' = NoCall
  /\ UNCHANGED <<effectVars, trackVars, pluginVars, loopVars, blockHist>>
  /\ UNCHANGED <<addsLeft, blocksLeft, processors, added, latencyHist, stream>>

\* AccessState::WorkerRead: MessageBuffer::Read on mChannelFromMain.
WorkerReadTry ==
  /\ wpc = "wr_try"
  /\ WorkerTry(mChannelFromMain, "wr_cmp")
  /\ mChannelFromMain' = MessageBufferBusy(mChannelFromMain, wIdx')
  /\ UNCHANGED <<stateVars, accessVars, mChannelToMain, ctlVars, envVars, histVars>>
  /\ UNCHANGED extVars

\* FromMainSlot::Reader, the counter: "copy once".
WorkerReadCompare ==
  /\ wpc = "wr_cmp"
  /\ LET slot == mChannelFromMain.data[wIdx]
     IN  IF ReaderSkips(slot, mWorkerSettings)
         THEN wpc' = "wr_rel" /\ UNCHANGED mWorkerSettings
         ELSE /\ wpc' = "wr_copy"
              /\ mWorkerSettings' = ReaderCopyCounter(slot, mWorkerSettings)
  /\ UNCHANGED <<mMainSettings, mInitialized, mLastActive, instanceAlive>>
  /\ UNCHANGED <<accessVars, chanVars, ctlVars, wIdx, wSpin, envVars, histVars>>
  /\ UNCHANGED extVars

\* FromMainSlot::Reader, the contents and the extra member.
WorkerReadCopy ==
  /\ wpc = "wr_copy"
  /\ mWorkerSettings' = ReaderCopySettings(mChannelFromMain.data[wIdx], mWorkerSettings)
  /\ wpc' = "wr_rel"
  /\ UNCHANGED <<mMainSettings, mInitialized, mLastActive, instanceAlive>>
  /\ UNCHANGED <<accessVars, chanVars, ctlVars, wIdx, wSpin, envVars, histVars>>
  /\ UNCHANGED extVars

WorkerReadRelease ==
  /\ wpc = "wr_rel"
  /\ mChannelFromMain' = MessageBufferRelease(mChannelFromMain, wIdx)
  /\ wIdx' = 0
  /\ wSpin' = 0
  /\ wpc' = "ps_active"
  /\ rdStartDone' = 0 /\ rdStartClean' = TRUE /\ rdBefore' = NoSettings
  /\ UNCHANGED <<stateVars, accessVars, mChannelToMain, ctlVars, envVars, ctlHist>>
  /\ UNCHANGED extVars

\* A ProcessStart that records the activity whatever the hook answers.
ProcessStartActivityAnyway(running, hook) == IsActive(mWorkerSettings) /\ running

\* ProcessStart, after WorkerRead: the transition of activity.  hook is the
\* answer of RealtimeResume or RealtimeSuspend.
ProcessStartActivity(running, hook) ==
  LET active == IsActive(mWorkerSettings) /\ running
  IN  IF active # mLastActive /\ instanceAlive /\ ~hook
      THEN mLastActive
      ELSE active

\* A ProcessStart that tells a live instance its activity in every block.
ProcessStartHookAlways(running) ==
  IF ~instanceAlive THEN "none"
  ELSE IF IsActive(mWorkerSettings) /\ running THEN "resume" ELSE "suspend"

\* The transition hook that ProcessStart invokes.
ProcessStartHook(running) ==
  LET active == IsActive(mWorkerSettings) /\ running
  IN  IF active # mLastActive /\ instanceAlive
      THEN IF active THEN "resume" ELSE "suspend"
      ELSE "none"

\* ProcessStart gets as far as realtime-process-start.
ProcessStartCalls(running, hook) ==
  LET active == IsActive(mWorkerSettings) /\ running
  IN  /\ ~(ProcessStartHook(running) # "none" /\ ~hook)
      /\ instanceAlive
      /\ active

\* ProcessStart, after WorkerRead, to its return; startOk is the answer of
\* RealtimeProcessStart.
ProcessStartActive ==
  /\ wpc = "ps_active"
  /\ \E running \in BOOLEAN, hook \in BOOLEAN, startOk \in BOOLEAN :
       LET name == ProcessStartHook(running)
           called == ProcessStartCalls(running, hook)
       IN  /\ mLastActive' = ProcessStartActivity(running, hook)
           /\ blockStarted' = (called /\ startOk)
           /\ lastHook' = IF name # "none" /\ hook THEN name ELSE lastHook
           /\ lastCall' = [Call("ProcessStart", 0, 0) EXCEPT
                             !.active = (IsActive(mWorkerSettings) /\ running),
                             !.hook = name,
                             !.hookOk = (name # "none" /\ hook),
                             !.called = called, !.ret = (called /\ startOk)]
  /\ wpc' = "block"
  /\ UNCHANGED <<mMainSettings, mWorkerSettings, mInitialized, instanceAlive>>
  /\ UNCHANGED <<accessVars, chanVars, ctlVars, wIdx, wSpin, envVars, histVars>>
  /\ UNCHANGED <<effectVars, trackVars, pluginVars, loopVars>>
  /\ UNCHANGED <<addsLeft, blocksLeft, processors, added, latencyHist, stream>>

\* ProcessEnd gets as far as realtime-process-end.
ProcessEndCalls == instanceAlive /\ IsActive(mWorkerSettings) /\ mLastActive

\* A ProcessEnd that answers the control role only after a block it has
\* processed.
ProcessEndWritesWhenActive == hasAccessState /\ ProcessEndCalls

\* if (auto pAccessState = TestAccessState())
ProcessEndWrites == hasAccessState

\* A ProcessEnd that takes the channels for one another and reads.
ProcessEndWorkerRead == "wr_try"

\* pAccessState->WorkerWrite()
ProcessEndWorkerWrite == "ww_try"

\* RealtimeEffectState::ProcessEnd: the end-of-block hook, whose answer is
\* endOk, then WorkerWrite when there is an AccessState (up to the choice of
\* the first slot to try).
ProcessEnd ==
  /\ wpc = "block"
  /\ \E endOk \in BOOLEAN :
       lastCall' = [Call("ProcessEnd", 0, 0) EXCEPT
                      !.called = ProcessEndCalls,
                      !.ret = (ProcessEndCalls /\ endOk)]
  /\ IF ProcessEndWrites
     THEN wpc' = ProcessEndWorkerWrite /\ wIdx' = MessageBufferWriteFirst(mChannelToMain)
     ELSE wpc' = "idle" /\ UNCHANGED wIdx
  /\ blockStarted' = FALSE
  /\ UNCHANGED <<stateVars, accessVars, chanVars, ctlVars, wSpin, envVars, histVars>>
  /\ UNCHANGED <<effectVars, trackVars, pluginVars, loopVars, lastHook>>
  /\ UNCHANGED <<addsLeft, blocksLeft, processors, added, latencyHist, stream>>

\* AccessState::WorkerWrite: MessageBuffer::Write on mChannelToMain.
WorkerWriteTry ==
  /\ wpc = "ww_try"
  /\ WorkerTry(mChannelToMain, "ww_data")
  /\ mChannelToMain' = MessageBufferBusy(mChannelToMain, wIdx')
  /\ UNCHANGED <<stateVars, accessVars, mChannelFromMain, ctlVars, envVars, histVars>>
  /\ UNCHANGED extVars

WorkerWriteData ==
  /\ wpc = "ww_data"
  /\ mChannelToMain' = [mChannelToMain EXCEPT
       !.data[wIdx] = ToMainSlotAssign(@, mWorkerSettings.counter)]
  /\ wpc' = "ww_last"
  /\ UNCHANGED <<stateVars, accessVars, mChannelFromMain, ctlVars, wIdx, wSpin, envVars, histVars>>
  /\ UNCHANGED extVars

WorkerWriteLast ==
  /\ wpc = "ww_last"
  /\ mChannelToMain' = MessageBufferSetLast(mChannelToMain, wIdx)
  /\ wpc' = "ww_rel"
  /\ UNCHANGED <<stateVars, accessVars, mChannelFromMain, ctlVars, wIdx, wSpin, envVars, histVars>>
  /\ UNCHANGED extVars

WorkerWriteRelease ==
  /\ wpc = "ww_rel"
  /\ mChannelToMain' = MessageBufferRelease(mChannelToMain, wIdx)
  /\ wIdx' = 0
  /\ wSpin' = 0
  /\ wpc' = "idle"
  /\ UNCHANGED <<stateVars, accessVars, mChannelFromMain, ctlVars, envVars, histVars>>
  /\ lastCall' = NoCall
  /\ UNCHANGED <<effectVars, trackVars, pluginVars, loopVars, blockHist>>
  /\ UNCHANGED <<addsLeft, blocksLeft, processors, added, latencyHist, stream>>

\* --------------------------------------------------------------- tracks
\* AllocateChannelsToProcessors: the input index of the next callback.
\* An allocator that lets the input index run on.
AllocateNextInputUnwrapped(indx, chans, numIn) == indx + numIn

AllocateNextInput(indx, chans, numIn) == (indx + numIn) % chans

\* An allocator that goes on after its callback has reported failure.
AllocateGoesOn(answer) == FALSE

\* AllocateChannelsToProcessors returns when its callback reports failure.
AllocateReturns(answer) == ~answer

\* AllocateChannelsToProcessors(chans, numAudioIn, numAudioOut, f): the calls
\* of f, each with its two arguments and its answer.  The callback is given
\* by the numbers of the calls it declines (1 for the first call).
RECURSIVE AllocateLoop(_, _, _, _, _, _, _)
AllocateLoop(chans, numIn, numOut, declined, indx, ondx, k) ==
  IF ondx < chans
  THEN LET answer == k \notin declined
       IN  <<[indx |-> indx, ondx |-> ondx, answer |-> answer]>> \o
           (IF AllocateReturns(answer) THEN <<>>
            ELSE AllocateLoop(chans, numIn, numOut, declined,
                              AllocateNextInput(indx, chans, numIn),
                              ondx + numOut, k + 1))
  ELSE <<>>

AllocateChannelsToProcessors(chans, numIn, numOut, declined) ==
  AllocateLoop(chans, numIn, numOut, declined, 0, 0, 1)

\* The argument pairs and the answers of a sequence of callback calls.
Visits(calls) == [i \in 1..Len(calls) |-> <<calls[i].indx, calls[i].ondx>>]
Answers(calls) == [i \in 1..Len(calls) |-> calls[i].answer]
Accepted(calls) == Cardinality({i \in 1..Len(calls) : calls[i].answer})
\* The processor indices first, first + 1, ... (n of them).
Indices(first, n) == [i \in 1..n |-> first + i - 1]

\* The add-processor calls a plugin declines: none, or one of them.
Declines == {{}} \cup {{k} : k \in 1..MaxChans}

\* An AddTrack that wants two processors added before it reports success.
AddTrackNeedsTwo(first, current) == current > first + 1

\* AddTrack succeeds when at least one processor was added.
AddTrackSucceeds(first, current) == current > first

\* RealtimeEffectState::AddTrack, called by the main thread while the worker
\* is not in a block.  declined: the add-processor calls the plugin declines.
AddTrack(track, chans) ==
  /\ cpc = "idle" /\ wpc = "idle"
  /\ stateAlive
  /\ scope # "none"
  /\ addsLeft > 0
  /\ addsLeft' = addsLeft - 1
  /\ \E made \in BOOLEAN, ok \in BOOLEAN, declined \in Declines :
       LET r == EnsureInstance(made, ok)
           first == mCurrentProcessor
           calls == IF r.instance
                    THEN AllocateChannelsToProcessors(chans, numAudioIn, numAudioOut, declined)
                    ELSE <<>>
           current == first + Accepted(calls)
           success == r.instance /\ AddTrackSucceeds(first, current)
       IN  /\ mWorkerSettings' = r.worker
           /\ mLastActive' = r.lastActive
           /\ instanceAlive' = r.alive
           /\ mInitialized' = r.initialized
           /\ mCurrentProcessor' = current
           /\ mGroups' = IF success THEN [mGroups EXCEPT ![track] = Group(first)]
                         ELSE mGroups
           /\ processors' = processors \o [i \in 1..Accepted(calls) |-> track]
           /\ added' = IF success
                       THEN [added EXCEPT ![track] =
                               [ok |-> TRUE, chans |-> chans, visits |-> Visits(calls),
                                procs |-> Indices(Len(processors), Accepted(calls))]]
                       ELSE added
           /\ lastCall' = [Call("AddTrack", track, chans) EXCEPT
                             !.visits = Visits(calls), !.answers = Answers(calls),
                             !.procs = Indices(Len(processors), Accepted(calls)),
                             !.init = r.init, !.instance = success]
  /\ UNCHANGED <<mMainSettings, accessVars, chanVars, ctlVars, wrkVars, envVars, histVars>>
  /\ UNCHANGED <<effectVars, mLatency, pluginVars, loopVars, blocksLeft, latencyHist, stream, blockHist>>

\* Process goes the trivial way, copying the input to the output.
ProcessTrivially == ~mPlugin \/ ~instanceAlive \/ ~mLastActive

\* What RealtimeProcess answers for a chunk of cnt frames.
RealtimeProcess(cnt, full) == IF full THEN cnt ELSE 0

\* A discard that the latency left does not limit.
LimitSampleBufferSizeUnlimited(len, limit) == len

\* limitSampleBufferSize
LimitSampleBufferSize(len, limit) == Min(len, limit)

\* A Process that asks for the latency with every chunk.
LatencyAbsentAlways(latency) == TRUE

\* if (!mLatency)
LatencyAbsent(latency) == ~latency.has

\* Process, the inner loop over the chunks of one processor.  st: len,
\* mLatency, the latency queries and the realtime-process calls so far, and
\* how many of these calls preceded the (last) query.
RECURSIVE ProcessBlocks(_, _, _, _, _, _)
ProcessBlocks(block, numSamples, full, report, ondx, st) ==
  IF block < numSamples
  THEN LET cnt == Min(numSamples - block, BlockSize)
           processed == RealtimeProcess(cnt, full)
           query == LatencyAbsent(st.latency)
           latency == IF query THEN Latency(report) ELSE st.latency
           len == st.len + processed
           discard == LimitSampleBufferSize(len, latency.left)
           st1 == [st EXCEPT !.hooks = @ + 1,
                             !.queries = IF query THEN @ + 1 ELSE @,
                             !.queriedAt = IF query THEN st.hooks + 1 ELSE @,
                             !.latency = latency]
       IN  ProcessBlocks(block + BlockSize, numSamples, full, report, ondx,
             IF ondx = 0
             THEN [st1 EXCEPT !.len = len - discard,
                              !.latency = Latency(latency.left - discard)]
             ELSE st1)
  ELSE st

\* Process, the outer loop over the processors.
RECURSIVE ProcessProcessors(_, _, _, _, _, _)
ProcessProcessors(calls, i, numSamples, full, report, st) ==
  IF i <= Len(calls)
  THEN ProcessProcessors(calls, i + 1, numSamples, full, report,
         ProcessBlocks(0, numSamples, full, report, calls[i].ondx, st))
  ELSE st

\* The group Process finds for a track: mGroups[&track] makes an entry for
\* a track that has none.
ProcessGroup(track) == IF mGroups[track].has THEN mGroups[track] ELSE Group(0)

\* RealtimeEffectState::Process, called by the worker between ProcessStart
\* and ProcessEnd.  report: the latency the plugin reports when asked.
Process(track, chans, numSamples) ==
  /\ wpc = "block"
  /\ blocksLeft > 0
  /\ blocksLeft' = blocksLeft - 1
  /\ IF ProcessTrivially
     THEN /\ lastCall' = [Call("Process", track, chans) EXCEPT
                            !.copied = TRUE, !.numSamples = numSamples]
          /\ UNCHANGED <<trackVars, latencyHist, stream>>
     ELSE \E report \in 0..MaxLatency :
       LET pair == ProcessGroup(track)
           calls == AllocateChannelsToProcessors(chans, numAudioIn, numAudioOut, {})
           st == ProcessProcessors(calls, 1, numSamples, processesFully, report,
                   [len |-> 0, latency |-> mLatency, queries |-> 0, hooks |-> 0,
                    queriedAt |-> 0])
           result == numSamples - st.len
       IN  /\ mGroups' = [mGroups EXCEPT ![track] = pair]
           /\ mLatency' = st.latency
           /\ UNCHANGED mCurrentProcessor
           /\ lastCall' = [Call("Process", track, chans) EXCEPT
                             !.visits = Visits(calls),
                             !.procs = Indices(pair.first, Len(calls)),
                             !.hooks = st.hooks, !.numSamples = numSamples,
                             !.result = result]
           /\ latencyHist' =
                [queries |-> latencyHist.queries + st.queries,
                 chunks |-> Min(2, latencyHist.chunks + st.hooks),
                 queriedAt |-> IF st.queries > 0
                               THEN latencyHist.chunks + st.queriedAt
                               ELSE latencyHist.queriedAt,
                 reported |-> IF st.queries > 0 THEN report
                              ELSE latencyHist.reported]
           \* a call without channels carries no frames
           /\ stream' = IF chans = 0 THEN stream
                        ELSE [stream EXCEPT ![track] =
                               [fed |-> @.fed + numSamples,
                                valid |-> @.valid + (numSamples - result)]]
  /\ UNCHANGED <<stateVars, accessVars, chanVars, ctlVars, wrkVars, envVars, histVars>>
  /\ UNCHANGED <<effectVars, pluginVars, loopVars, addsLeft, processors, added, blockHist>>

\* ------------------------------------------------------------ specification
ControlStep ==
  \/ GetAccess \/ Set \/ AccessGet \/ AccessFlush
  \/ MainWriteTry \/ MainWriteSettings \/ MainWriteCounter
  \/ MainWriteLast \/ MainWriteRelease
  \/ MainReadTry \/ MainReadData \/ MainReadRelease
  \/ FlushSleep \/ FlushPublish

LifecycleStep == Initialize \/ Finalize \/ InstanceExpires

WorkerStep ==
  \/ ProcessStart
  \/ WorkerReadTry \/ WorkerReadCompare \/ WorkerReadCopy \/ WorkerReadRelease
  \/ ProcessStartActive \/ ProcessEnd
  \/ WorkerWriteTry \/ WorkerWriteData \/ WorkerWriteLast \/ WorkerWriteRelease

Next == ControlStep \/ LifecycleStep \/ WorkerStep

Spec == Init /\ [][Next]_vars

\* The Access handles: a state whose plugin may be missing and which may be
\* destroyed while handles on it remain.
InitHandle ==
  /\ loop = NoLoop
  /\ mPlugin \in BOOLEAN
  /\ numAudioIn = 1 /\ numAudioOut = 1 /\ processesFully = TRUE
  /\ addsLeft = 0 /\ blocksLeft = 0
  /\ InitEffect(TRUE)
  /\ InitState
  /\ scopesLeft = HandleScopes /\ setsLeft = HandleSets

HandleNext == Next \/ StateExpires

HandleSpec == InitHandle /\ [][HandleNext]_vars

\* The tracks: a state without AccessState, whose tracks are added and
\* processed.
InitTrack ==
  /\ loop = NoLoop
  /\ mPlugin \in BOOLEAN
  /\ numAudioIn \in 1..MaxArity /\ numAudioOut \in 1..MaxArity
  /\ processesFully \in BOOLEAN
  /\ addsLeft = TrackAdds /\ blocksLeft = TrackBlocks
  /\ \E active \in BOOLEAN : InitEffect(active)
  /\ InitState
  /\ scopesLeft = TrackScopes /\ setsLeft = 0

AddTrackStep == \E track \in Tracks, chans \in 0..MaxChans : AddTrack(track, chans)

ProcessStep ==
  \E track \in Tracks, chans \in 0..MaxChans, numSamples \in 0..MaxSamples :
    Process(track, chans, numSamples)

TrackNext ==
  \/ Initialize \/ Finalize \/ InstanceExpires
  \/ AddTrackStep
  \/ ProcessStart \/ ProcessStartActive \/ ProcessStep \/ ProcessEnd

TrackSpec == InitTrack /\ [][TrackNext]_vars

\* The streams of frames: an active effect whose plugin has one input and
\* one output and processes every chunk in full, in one scope.
InitStream ==
  /\ loop = NoLoop
  /\ mPlugin = TRUE
  /\ numAudioIn = 1 /\ numAudioOut = 1
  /\ processesFully = TRUE
  /\ addsLeft = StreamAdds /\ blocksLeft = StreamBlocks
  /\ InitEffect(TRUE)
  /\ InitState
  /\ scopesLeft = StreamScopes /\ setsLeft = 0

StreamSpec == InitStream /\ [][TrackNext]_vars

\* The allocator alone, over more channels and arities.
InitAlloc ==
  /\ loop = NoLoop
  /\ mPlugin = TRUE
  /\ numAudioIn \in 1..AllocArity /\ numAudioOut \in 1..AllocArity
  /\ processesFully = TRUE
  /\ addsLeft = 0 /\ blocksLeft = 0
  /\ InitEffect(TRUE)
  /\ InitState
  /\ scopesLeft = 0 /\ setsLeft = 0

\* AllocateChannelsToProcessors is called with a callback that declines one
\* of its calls, or none.
Allocate ==
  \E chans \in 0..AllocChans, declined \in {{}} \cup {{k} : k \in 1..AllocChans} :
    LET calls == AllocateChannelsToProcessors(chans, numAudioIn, numAudioOut, declined)
    IN  /\ lastCall' = [Call("Allocate", 0, chans) EXCEPT
                          !.visits = Visits(calls), !.answers = Answers(calls)]
        /\ UNCHANGED <<stateVars, accessVars, chanVars, ctlVars, wrkVars, envVars, histVars>>
        /\ UNCHANGED <<effectVars, trackVars, pluginVars, loopVars>>
        /\ UNCHANGED <<addsLeft, blocksLeft, processors, added, latencyHist, stream>>
        /\ UNCHANGED blockHist

AllocSpec == InitAlloc /\ [][Allocate]_vars

\* ------------------------------------------- the loops, step by step
\* An unsigned counter of LoopBits bits, incremented.
Incremented(n) == (n + 1) % (2 ^ LoopBits)

\* A sum of unsigned numbers of LoopBits bits.
Sum(a, b) == (a + b) % (2 ^ LoopBits)

\* Process, the input pointers of a processor: the slots after the first
\* copy are filled from the first channel on, as often as needed.
RECURSIVE ClientInMore(_, _, _, _)
ClientInMore(chans, numIn, copied, slots) ==
  IF numIn - copied # 0
  THEN LET moreCopied == Min(chans, numIn - copied)
       IN  ClientInMore(chans, numIn, copied + moreCopied,
                        slots \o [k \in 1..moreCopied |-> Ptr(k - 1)])
  ELSE slots

\* Input pointers that do not start again from the first channel.
ClientInUnwrapped(chans, numIn, indx) == [k \in 1..numIn |-> Ptr(indx + k - 1)]

\* Process, "Point at the correct input buffers".
ClientIn(chans, numIn, indx) ==
  LET copied == Min(chans - indx, numIn)
  IN  ClientInMore(chans, numIn, copied, [k \in 1..copied |-> Ptr(indx + k - 1)])

\* Process, "Point at the correct output buffers".
ClientOut(chans, numOut, ondx) ==
  LET copied == Min(chans - ondx, numOut)
  IN  [k \in 1..numOut |-> IF k <= copied THEN Ptr(ondx + k - 1) ELSE NullPtr]

\* How often each output channel has been handed out, after clientOut.
Given(given, clientOut) ==
  [c \in DOMAIN given |->
     given[c] + Cardinality({k \in DOMAIN clientOut :
                               ~clientOut[k].null /\ clientOut[k].chan = c - 1})]

\* if (clientIn[i]) clientIn[i] += cnt, and the same for clientOut
Advanced(ptrs, cnt) ==
  [k \in DOMAIN ptrs |->
     IF ptrs[k].null THEN ptrs[k] ELSE [ptrs[k] EXCEPT !.off = @ + cnt]]

\* auto cnt = std::min(numSamples - block, blockSize)
Chunk(numSamples, block, blockSize) == Min(numSamples - block, blockSize)

\* return numSamples - len
ProcessResult(numSamples, len) == numSamples - len

\* ondx += numAudioOut
AllocateNextOutput(ondx, numOut) == ondx + numOut

\* AddTrack or Process is called; AddTrack begins at the running processor
\* index, Process at the first processor of the group.
LoopCall ==
  /\ loop.pc \in {"idle", "done"}
  /\ loop.callsLeft > 0
  /\ \E op \in {"AddTrack", "Process"}, chans \in 0..LoopChans,
        numSamples \in 0..LoopSamples :
       /\ op = "AddTrack" => numSamples = 0
       /\ loop' = [NoLoop EXCEPT
                     !.pc = "alloc", !.op = op, !.chans = chans,
                     !.numSamples = numSamples,
                     !.blockSize = loop.blockSize,
                     !.callsLeft = loop.callsLeft - 1,
                     !.first = IF op = "AddTrack" THEN mCurrentProcessor ELSE 0,
                     !.given = [c \in 1..chans |-> 0]]
  /\ UNCHANGED <<stateVars, accessVars, chanVars, ctlVars, wrkVars, envVars, histVars>>
  /\ UNCHANGED <<effectVars, trackVars, pluginVars, trackHist, blockHist>>

\* AllocateChannelsToProcessors, the test of the loop fails: the allocator
\* returns, and the call with it.
AllocateEnds ==
  /\ loop.pc = "alloc"
  /\ ~(loop.ondx < loop.chans)
  /\ loop' = [loop EXCEPT !.pc = "done",
                          !.result = ProcessResult(loop.numSamples, loop.len)]
  /\ UNCHANGED <<stateVars, accessVars, chanVars, ctlVars, wrkVars, envVars, histVars>>
  /\ UNCHANGED <<effectVars, trackVars, pluginVars, trackHist, blockHist>>

\* AllocateChannelsToProcessors calls the client of AddTrack, which adds a
\* processor; the allocator returns if the plugin declines, else moves on.
AllocateAdds ==
  /\ loop.pc = "alloc"
  /\ loop.op = "AddTrack"
  /\ loop.ondx < loop.chans
  /\ \E answer \in BOOLEAN :
       IF AllocateReturns(answer)
       THEN /\ loop' = [loop EXCEPT !.pc = "done"]
            /\ UNCHANGED mCurrentProcessor
       ELSE /\ mCurrentProcessor' = Incremented(mCurrentProcessor)
            /\ loop' = [loop EXCEPT
                 !.indx = AllocateNextInput(loop.indx, loop.chans, numAudioIn),
                 !.ondx = AllocateNextOutput(loop.ondx, numAudioOut)]
  /\ UNCHANGED <<stateVars, accessVars, chanVars, ctlVars, wrkVars, envVars, histVars>>
  /\ UNCHANGED <<effectVars, mGroups, mLatency, pluginVars, trackHist, blockHist>>

\* AllocateChannelsToProcessors calls the client of Process, which points at
\* the buffers and enters the loop over blocks.
AllocatePoints ==
  /\ loop.pc = "alloc"
  /\ loop.op = "Process"
  /\ loop.ondx < loop.chans
  /\ LET clientOut == ClientOut(loop.chans, numAudioOut, loop.ondx)
     IN  loop' = [loop EXCEPT
                    !.pc = "chunk",
                    !.clientIn = ClientIn(loop.chans, numAudioIn, loop.indx),
                    !.clientOut = clientOut,
                    !.given = Given(loop.given, clientOut),
                    !.block = 0, !.cnt = 0, !.sum = 0]
  /\ UNCHANGED <<stateVars, accessVars, chanVars, ctlVars, wrkVars, envVars, histVars>>
  /\ UNCHANGED <<effectVars, trackVars, pluginVars, trackHist, blockHist>>

\* Process, one turn of the loop over blocks: realtime-process takes cnt
\* frames and reports processed of them, the latency is asked for if not
\* yet known, the pointers advance, and for the first processor the frames
\* that the latency covers are discarded.
ChunkProcessed ==
  /\ loop.pc = "chunk"
  /\ loop.block < loop.numSamples
  /\ LET cnt == Chunk(loop.numSamples, loop.block, loop.blockSize)
     IN  \E processed \in 0..cnt, report \in 0..MaxLatency :
           LET latency == IF LatencyAbsent(mLatency) THEN Latency(report)
                          ELSE mLatency
               len == Sum(loop.len, processed)
               discard == LimitSampleBufferSize(len, latency.left)
           IN  /\ mLatency' = IF loop.ondx = 0
                              THEN Latency(latency.left - discard)
                              ELSE latency
               /\ loop' = [loop EXCEPT
                             !.block = loop.block + loop.blockSize,
                             !.cnt = cnt,
                             !.sum = loop.sum + cnt,
                             !.clientIn = Advanced(loop.clientIn, cnt),
                             !.clientOut = Advanced(loop.clientOut, cnt),
                             !.calls = Incremented(loop.calls),
                             !.len = IF loop.ondx = 0 THEN len - discard
                                     ELSE loop.len]
  /\ UNCHANGED <<stateVars, accessVars, chanVars, ctlVars, wrkVars, envVars, histVars>>
  /\ UNCHANGED <<effectVars, mGroups, mCurrentProcessor, pluginVars, trackHist, blockHist>>

\* Process, the loop over blocks ends: the client goes to the next
\* processor and returns true, and the allocator moves on.
ChunksEnd ==
  /\ loop.pc = "chunk"
  /\ ~(loop.block < loop.numSamples)
  /\ loop' = [loop EXCEPT
                !.pc = "alloc",
                !.processor = Incremented(loop.processor),
                !.indx = AllocateNextInput(loop.indx, loop.chans, numAudioIn),
                !.ondx = AllocateNextOutput(loop.ondx, numAudioOut)]
  /\ UNCHANGED <<stateVars, accessVars, chanVars, ctlVars, wrkVars, envVars, histVars>>
  /\ UNCHANGED <<effectVars, trackVars, pluginVars, trackHist, blockHist>>

\* The instance declares its arities and its block size; the calls are made
\* on a state that is initialized and active.
InitLoop ==
  /\ mPlugin = TRUE
  /\ numAudioIn \in 0..LoopArity /\ numAudioOut \in 0..LoopArity
  /\ processesFully = FALSE
  /\ addsLeft = 0 /\ blocksLeft = 0
  /\ \E blockSize \in 0..LoopBlock :
       loop = [NoLoop EXCEPT !.blockSize = blockSize, !.callsLeft = LoopCalls]
  /\ InitEffect(TRUE)
  /\ InitState
  /\ scopesLeft = 0 /\ setsLeft = 0

\* The steps of a call that was made.
LoopStep == AllocateEnds \/ AllocateAdds \/ AllocatePoints \/ ChunkProcessed \/ ChunksEnd

LoopNext == LoopCall \/ LoopStep

\* The thread that is in a call goes on with it.
LoopSpec == InitLoop /\ [][LoopNext]_vars /\ WF_vars(LoopStep)

\* ---------------------------------------------------------------- helpers
\* The slot of mChannelFromMain (mChannelToMain) a thread has busied.
ControlHoldsFrom(i) == cpc \in {"mw_settings", "mw_counter", "mw_last", "mw_rel"} /\ cIdx = i
WorkerHoldsFrom(i) == wpc \in {"wr_cmp", "wr_copy", "wr_rel"} /\ wIdx = i
ControlHoldsTo(i) == cpc \in {"mr_data", "mr_rel"} /\ cIdx = i
WorkerHoldsTo(i) == wpc \in {"ww_data", "ww_last", "ww_rel"} /\ wIdx = i

\* A settings-and-counter pair as one Set (or the seeding) made it.
OfOneSet(sc) == sc.settings.rev = sc.counter /\ HasValue(sc.settings)

\* ------------------------------------------------------------------ C1
\* C1: after Sets with a value and a Flush that returned, the next Get
\* returns the settings passed to the last of those Sets, however the
\* worker's ProcessStart / ProcessEnd steps were interleaved.
C1_GetAfterFlush ==
  cCall \in {"FlushGot", "FlushUGot"} => getResult = lastSetArg

\* A Get after a polling Flush that followed two Sets the worker has read.
C1_Witness ==
  /\ cCall = "FlushGot"
  /\ lastSetArg.rev = 2
  /\ mInitialized
  /\ mWorkerSettings.counter = 2

\* ------------------------------------------------------------------ C2
\* C2: when initialized, Flush publishes the last settings only in a state
\* where the counter read back from the worker equals that of the last Set
\* and the worker's working settings are those of the last Set.
C2_PublishAfterEcho ==
  (cpc = "fl_publish" /\ mInitialized) =>
     /\ mCounter = mLastSettings.counter
     /\ mWorkerSettings = mLastSettings

\* Flush about to publish, initialized, in the last scope, after two Sets.
C2_Witness ==
  /\ cpc = "fl_publish"
  /\ mInitialized
  /\ mLastSettings.counter = 2
  /\ scopesLeft = 0

\* ------------------------------------------------------------------ C3
\* The same program with FairSets Sets and FairScopes initialization scopes,
\* where the worker keeps executing blocks while there is a scope and the
\* control thread keeps running the call it is in (both weakly fair).
InitFair == NoTracks /\ InitEffect(TRUE) /\ InitState /\ scopesLeft = FairScopes /\ setsLeft = FairSets

ControlRuns ==
  \/ MainWriteTry \/ MainWriteSettings \/ MainWriteCounter \/ MainWriteLast
  \/ MainWriteRelease
  \/ MainReadTry \/ MainReadData \/ MainReadRelease
  \/ FlushSleep \/ FlushPublish

FairSpec ==
  /\ InitFair
  /\ [][Next]_vars
  /\ WF_vars(WorkerStep)
  /\ WF_vars(ControlRuns)

FlushPolling == cCall = "Flush" /\ cpc # "idle"
FlushReturned == cCall = "Flush" /\ cpc = "idle"

MainReadGetsLatest ==
  MainReadTry /\ cpc' = "mr_data" /\ cIdx' = mChannelToMain.last

FlushUReturns == cCall = "FlushU" /\ cpc = "fl_publish" /\ cpc' = "idle"

\* C4: Flush on a state that is not initialized does no MainRead, copies the
\* last settings and counter into mMainSettings and returns; a following Get
\* returns the settings of the last Set.
C4_FlushUninitialized ==
  /\ []((cpc = "fl_publish" /\ ~mInitialized) => (cCall = "FlushU" /\ ~flushDidRead))
  /\ [](cCall = "FlushU" => (cpc \in {"fl_publish", "idle"} /\ ~flushDidRead))
  /\ [](cCall = "FlushUGot" => getResult = lastSetArg)
  /\ [][FlushUReturns => mMainSettings' = mLastSettings]_vars

\* The Get after such a Flush has returned, the worker never having seen
\* the Set.
C4_Witness ==
  /\ cCall = "FlushUGot"
  /\ ~mInitialized
  /\ lastSetArg.rev = 1
  /\ mWorkerSettings.counter = 0

C6_NoTornRead ==
  /\ \A i \in Slots : ~(ControlHoldsFrom(i) /\ WorkerHoldsFrom(i))
  /\ \A i \in Slots : ~(ControlHoldsTo(i) /\ WorkerHoldsTo(i))
  /\ hasAccessState =>
        \A i \in Slots : ~ControlHoldsFrom(i) => OfOneSet(mChannelFromMain.data[i])
  /\ hasAccessState =>
        \A i \in Slots : mChannelToMain.data[i].pOutputs = Outputs
  /\ wpc = "wr_rel" => mWorkerSettings \in {rdBefore, mChannelFromMain.data[wIdx]}
  /\ (wpc # "wr_copy" /\ scope # "none") => OfOneSet(mWorkerSettings)
  /\ cpc = "mr_rel" => mCounter \in {mChannelToMain.data[i].counter : i \in Slots}

\* The worker reads one cell while the control thread writes the other.
C6_Witness ==
  /\ WorkerHoldsFrom(0)
  /\ ControlHoldsFrom(1)
  /\ wpc = "wr_copy"
  /\ cpc = "mw_counter"
  /\ mLastSettings.counter = 2

ControlFails == cpc \in {"mw_try", "mr_try"} /\ cpc' = cpc /\ cIdx' # cIdx
WorkerFails == wpc \in {"wr_try", "ww_try"} /\ wpc' = wpc /\ wIdx' # wIdx
BusyFrom(i) == mChannelFromMain.busy[i]
BusyTo(i) == mChannelToMain.busy[i]

C8_Seeded ==
  (hasAccessState /\ mLastSettings.counter = 0) =>
     /\ \A i \in Slots : mChannelFromMain.data[i] = mLastSettings
     /\ \A i \in Slots : mChannelToMain.data[i] = Response(0, Outputs)
     /\ HasValue(mLastSettings.settings)
     /\ mMainSettings = mLastSettings
     /\ cpc = "mr_rel" => mCounter = 0
     /\ wpc = "wr_rel" => mWorkerSettings = mLastSettings

\* Both threads are reading a seeded channel.
C8_Witness ==
  /\ hasAccessState
  /\ mLastSettings.counter = 0
  /\ cpc = "mr_rel"
  /\ wpc = "wr_rel"

C10_EmptySetIsNoOp ==
  /\ [](hasAccessState => HasValue(mLastSettings.settings))
  /\ [](hasAccessState => \A i \in Slots :
          ~ControlHoldsFrom(i) => HasValue(mChannelFromMain.data[i].settings))
  /\ [](cCall = "SetEmpty" => cpc = "idle")
  /\ [][(cCall # "SetEmpty" /\ cCall' = "SetEmpty")
           => UNCHANGED <<stateVars, accessVars, chanVars, cpc, lastSetArg>>]_vars

\* Set with empty settings has returned, after a Set with a value.
C10_Witness ==
  /\ cCall = "SetEmpty"
  /\ mLastSettings.counter = 1

\* ------------------------------------------------------------------ C11
\* The handle of the control thread reaches no state: it is the handle
\* GetAccess made without a state, or its state is gone.
DeadHandle == handle = "dummy" \/ (handle = "state" /\ ~stateAlive)

\* C11: GetAccess returns a handle on the state only with a plugin and a
\* settings value.  On a handle whose state was destroyed, and on the handle
\* GetAccess returns otherwise, Get returns an empty settings value, and Set
\* and Flush change no state and return without polling.
C11_DeadHandle ==
  /\ [][handle' # handle
          => /\ (handle' = "dummy")
                  <=> (~mPlugin' \/ ~HasValue(mMainSettings'.settings))
             /\ (handle' = "state") => hasAccessState']_vars
  /\ [](DeadHandle => cpc = "idle")
  /\ [](cCall = "GetNoState" => getResult = EmptySettings)
  /\ [][(DeadHandle /\ cCall' # cCall)
          => /\ cCall' \in {"GetNoState", "SetNoState", "FlushNoState"}
             /\ UNCHANGED <<stateVars, accessVars, chanVars, trackVars, mPlugin>>]_vars

\* A Set and a Get on a handle whose state, with a Set behind it, is gone.
C11_Witness ==
  /\ handle = "state" /\ ~stateAlive
  /\ mLastSettings.counter > 0
  /\ cCall = "GetNoState"
  /\ getResult = EmptySettings

\* ------------------------------------------------------------------ C12
\* A WorkerRead with no MainWrite about: none was in progress when the read
\* started and no Set has been made since.
QuietRead == rdStartClean /\ rdStartDone = mLastSettings.counter

\* C12: a WorkerRead with no MainWrite about leaves the worker with the
\* counter of the last Set, and the next WorkerRead, when no MainWrite came
\* in between, finds that counter in the slot: it goes on without the copy
\* of the settings and leaves the worker's settings, activation flag and
\* counter as they were.
C12_SecondReadCopiesNothing ==
  /\ []((wpc = "wr_rel" /\ QuietRead)
          => mWorkerSettings.counter = mLastSettings.counter)
  /\ [][(wpc = "wr_cmp" /\ QuietRead /\ rdBefore.counter = mLastSettings.counter)
          => (wpc' # "wr_copy" /\ mWorkerSettings' = rdBefore)]_vars

\* The second of two reads after one Set, never flushed: the first read has
\* copied the settings, the second has changed nothing.
C12_Witness ==
  /\ wpc = "wr_rel"
  /\ QuietRead
  /\ mLastSettings.counter = 1
  /\ mMainSettings.counter = 0
  /\ rdBefore.counter = 1
  /\ mWorkerSettings = rdBefore

\* ------------------------------------------------------------------ C13
Ceiling(a, b) == (a + b - 1) \div b

\* C13: with a callback that never declines (and at least one output),
\* AllocateChannelsToProcessors(chans, in, out) calls it ceil(chans / out)
\* times, call number k (from 0) with the input offset (k * in) mod chans and
\* the output offset k * out; for 3 channels, 2 inputs and 1 output the
\* calls are (0, 0), (2, 1), (1, 2).
C13_AllocatorVisits ==
  (lastCall.op = "Allocate" /\ \A i \in 1..Len(lastCall.answers) : lastCall.answers[i])
    => /\ Len(lastCall.visits) = Ceiling(lastCall.chans, numAudioOut)
       /\ \A k \in 1..Len(lastCall.visits) :
            lastCall.visits[k] =
              <<((k - 1) * numAudioIn) % lastCall.chans, (k - 1) * numAudioOut>>
       /\ (lastCall.chans = 3 /\ numAudioIn = 2 /\ numAudioOut = 1)
            => lastCall.visits = << <<0, 0>>, <<2, 1>>, <<1, 2>> >>

\* The allocation of 3 channels to processors of 2 inputs and 1 output.
C13_Witness ==
  /\ lastCall.op = "Allocate"
  /\ lastCall.chans = 3 /\ numAudioIn = 2 /\ numAudioOut = 1
  /\ lastCall.answers = <<TRUE, TRUE, TRUE>>
  /\ lastCall.visits = << <<0, 0>>, <<2, 1>>, <<1, 2>> >>

\* ------------------------------------------------------------------ C14
\* An active Process call, with frames to process, for a track that
\* AddTrack has added with the same channel count.
ProcessOfAdded ==
  /\ lastCall.op = "Process" /\ ~lastCall.copied /\ lastCall.numSamples > 0
  /\ added[lastCall.track].ok
  /\ added[lastCall.track].chans = lastCall.chans

\* C14: an active Process call for a track that AddTrack has added with the
\* same channel count passes the same (inputOffset, outputOffset) pairs to
\* its callback as AddTrack did, and calls realtime-process with exactly
\* the processor indices that AddTrack added for the track.
C14_ProcessVisitsAdded ==
  ProcessOfAdded
    => /\ lastCall.visits = added[lastCall.track].visits
       /\ lastCall.procs = added[lastCall.track].procs

\* The same, for a track all of whose add-processor calls were accepted.
ProcessVisitsFullyAdded ==
  (ProcessOfAdded
     /\ Len(added[lastCall.track].visits) = Len(added[lastCall.track].procs))
    => /\ lastCall.visits = added[lastCall.track].visits
       /\ lastCall.procs = added[lastCall.track].procs

\* ------------------------------------------------------------------ C15
\* C15: the traversal of the allocator ends with the call its callback
\* declines: in AddTrack every callback call is one add-processor call, only
\* the last of them can have been declined, and each of the others has
\* added one processor.
C15_StopsAtDecline ==
  lastCall.op = "AddTrack"
    => /\ Len(lastCall.answers) = Len(lastCall.visits)
       /\ \A i \in 1..Len(lastCall.answers) :
            i < Len(lastCall.answers) => lastCall.answers[i]
       /\ Len(lastCall.procs) =
            Cardinality({i \in 1..Len(lastCall.answers) : lastCall.answers[i]})

\* An AddTrack of two channels to a plugin with one output, whose first
\* add-processor call was declined: there was no second call.
C15_Witness ==
  /\ lastCall.op = "AddTrack"
  /\ lastCall.chans = 2 /\ numAudioOut = 1
  /\ lastCall.answers = <<FALSE>>
  /\ lastCall.visits = << <<0, 0>> >>

\* ------------------------------------------------------------------ C16
\* A step that is a Process call.
ProcessCalled == blocksLeft' < blocksLeft /\ lastCall'.op = "Process"

\* C16: a Process call on a state that is inactive (as ProcessStart last
\* recorded), has no plugin or no live instance, or is not initialized,
\* copies the input to the output, calls no realtime-process and returns 0.
C16_TrivialWhenNotReady ==
  [][(ProcessCalled
        /\ (~mLastActive \/ ~mPlugin \/ ~instanceAlive \/ ~mInitialized))
       => (lastCall'.copied /\ lastCall'.hooks = 0 /\ lastCall'.result = 0)]_vars

\* The same without the case of a state that is not initialized.
ProcessTrivialWhenTold ==
  [][(ProcessCalled /\ (~mLastActive \/ ~mPlugin \/ ~instanceAlive))
       => (lastCall'.copied /\ lastCall'.hooks = 0 /\ lastCall'.result = 0
           /\ UNCHANGED <<trackVars, stateVars>>)]_vars

\* ------------------------------------------------------------------ C17
\* The frames of track t so far in the scope exceed the latency reported.
StreamExceedsLatency(t) ==
  processesFully /\ latencyHist.queries > 0 /\ stream[t].fed > latencyHist.reported

\* C17: with a plugin that processes every chunk in full and reports the
\* latency L, the frames reported valid to each track in a scope, once the
\* track has been passed N > L frames, are N - L.
C17_ValidFramesPerTrack ==
  \A t \in Tracks :
    StreamExceedsLatency(t) => stream[t].valid = stream[t].fed - latencyHist.reported

\* The same when one track only is processed in the scope.
ValidFramesOfSingleTrack ==
  \A t \in Tracks :
    (StreamExceedsLatency(t) /\ \A u \in Tracks \ {t} : stream[u].fed = 0)
      => stream[t].valid = stream[t].fed - latencyHist.reported

\* ------------------------------------------------------------------ C18
\* C18: in a scope the latency is asked for at most once, right after the
\* first realtime-process call of the scope; once asked for, mLatency keeps
\* a value until the scope ends.
C18_LatencyOnce ==
  /\ latencyHist.queries <= 1
  /\ latencyHist.queries = 1 <=> latencyHist.chunks >= 1
  /\ latencyHist.queries = 1 => latencyHist.queriedAt = 1
  /\ scope # "none" => (mLatency.has <=> latencyHist.queries = 1)

\* Each track has been processed in the scope: two or more realtime-process
\* calls, one query.
C18_Witness ==
  /\ lastCall.op = "Process" /\ lastCall.hooks > 0
  /\ blocksLeft = 0
  /\ \A t \in Tracks : stream[t].fed > 0
  /\ latencyHist.queries = 1
  /\ latencyHist.chunks >= 2

\* ------------------------------------------------------------------ C19
\* Steps that are an Initialize call, an AddTrack call.
InitializeCalled == scope = "none" /\ scope' = "setup"
AddTrackCalled == addsLeft' < addsLeft

AddDeclined == \E i \in DOMAIN lastCall'.answers : ~lastCall'.answers[i]

\* C20: an AddTrack one of whose add-processor calls is declined reports
\* failure: it returns no instance, records no group for the track, and
\* leaves the running processor index as it was before the call.
C20_DeclineFailsAddTrack ==
  [][(AddTrackCalled /\ AddDeclined)
       => /\ ~lastCall'.instance
          /\ mGroups' = mGroups
          /\ mCurrentProcessor' = mCurrentProcessor]_vars

\* What the code does hold to: a decline of the first add-processor call
\* fails the AddTrack; a decline after an accepted call does not.
DeclineOfFirstFailsAddTrack ==
  [][(AddTrackCalled /\ AddDeclined)
       => IF lastCall'.answers[1]
          THEN /\ lastCall'.instance
               /\ mGroups'[lastCall'.track] = Group(mCurrentProcessor)
               /\ mCurrentProcessor' > mCurrentProcessor
          ELSE /\ ~lastCall'.instance
               /\ mGroups' = mGroups
               /\ mCurrentProcessor' = mCurrentProcessor]_vars

\* ------------------------------------------------------------------ C21
\* The number of add-processor calls that the AddTrack of the step has seen
\* accepted.
AddsAccepted ==
  Cardinality({i \in DOMAIN lastCall'.answers : lastCall'.answers[i]})

\* C21: AddTrack returns the instance exactly when at least one
\* add-processor call was accepted; it then records for the track the group
\* that starts at the processor index before the call, and the processor
\* index has grown by the number of accepted calls; otherwise it returns no
\* instance, records no group and leaves the processor index unchanged.
C21_AddTrackSucceedsOnOneAdd ==
  [][AddTrackCalled
       => /\ lastCall'.instance <=> (AddsAccepted > 0)
          /\ mCurrentProcessor' = mCurrentProcessor + AddsAccepted
          /\ IF AddsAccepted > 0
             THEN mGroups' = [mGroups EXCEPT ![lastCall'.track] =
                                Group(mCurrentProcessor)]
             ELSE mGroups' = mGroups]_vars

\* An AddTrack that has succeeded on a single accepted add-processor call,
\* the second call having been declined.
C21_Witness ==
  /\ lastCall.op = "AddTrack"
  /\ lastCall.answers = <<TRUE, FALSE>>
  /\ lastCall.instance
  /\ mGroups[lastCall.track].has
  /\ mCurrentProcessor = mGroups[lastCall.track].first + 1

\* ------------------------------------------------------------------ C22
\* Steps in which ProcessStart, past its WorkerRead, runs to its return.
ProcessStartReturns == wpc = "ps_active" /\ wpc' = "block"

\* C22: ProcessStart performs WorkerRead first when there is an AccessState,
\* and computes the activity from the worker's settings as the read left
\* them; with a live instance it invokes resume exactly when the activity is
\* true and the recorded activity false, suspend exactly when the activity
\* is false and the recorded activity true, and no hook otherwise.
C22_HookOnChange ==
  /\ [][(wpc = "idle" /\ wpc' # "idle" /\ hasAccessState) => wpc' = "wr_try"]_vars
  /\ [][(wpc # "ps_active" /\ wpc' = "ps_active")
          => (wpc = "wr_rel" \/ (wpc = "idle" /\ ~hasAccessState))]_vars
  /\ [][ProcessStartReturns
          => /\ lastCall'.op = "ProcessStart"
             /\ lastCall'.active => IsActive(mWorkerSettings)
             /\ (lastCall'.hook = "resume")
                  <=> (instanceAlive /\ lastCall'.active /\ ~mLastActive)
             /\ (lastCall'.hook = "suspend")
                  <=> (instanceAlive /\ ~lastCall'.active /\ mLastActive)
             /\ lastCall'.hook \in {"none", "resume", "suspend"}]_vars

\* A ProcessStart that has performed WorkerRead, taken a Set over, found the
\* activity true and the recorded activity false, and resumed the instance.
C22_Witness ==
  /\ wpc = "block"
  /\ hasAccessState
  /\ lastCall.op = "ProcessStart"
  /\ lastCall.hook = "resume"
  /\ lastCall.hookOk
  /\ mLastActive
  /\ mWorkerSettings.counter > 0

\* ------------------------------------------------------------------ C23
\* C23: when the suspend or resume hook fails, ProcessStart returns false,
\* does not call realtime-process-start, and leaves the recorded activity as
\* it was before the call.
C23_FailedHookKeepsActivity ==
  [][(ProcessStartReturns /\ lastCall'.hook # "none" /\ ~lastCall'.hookOk)
       => /\ ~lastCall'.ret
          /\ ~blockStarted'
          /\ ~lastCall'.called
          /\ mLastActive' = mLastActive
          /\ mLastActive' # lastCall'.active]_vars

\* A ProcessStart whose suspend hook has failed: the state remains active.
C23_Witness ==
  /\ wpc = "block"
  /\ lastCall.op = "ProcessStart"
  /\ lastCall.hook = "suspend"
  /\ ~lastCall.hookOk
  /\ ~lastCall.ret
  /\ mLastActive

\* ------------------------------------------------------------------ C24
\* C24: in a block whose ProcessStart has returned false, every Process call
\* copies the input to the output, calls no realtime-process and returns 0.
C24_PassThroughWhenNotStarted ==
  [][(ProcessCalled /\ ~blockStarted)
       => (lastCall'.copied /\ lastCall'.hooks = 0 /\ lastCall'.result = 0)]_vars

\* What the code does hold to: the Process call that follows a ProcessStart
\* which returned false for want of an instance or of activity, no hook and
\* no realtime-process-start having failed, passes the block through.
PassThroughWhenInactive ==
  [][(/\ ProcessCalled
      /\ lastCall.op = "ProcessStart"
      /\ ~lastCall.ret
      /\ ~lastCall.called
      /\ (lastCall.hook = "none" \/ lastCall.hookOk))
       => (lastCall'.copied /\ lastCall'.hooks = 0 /\ lastCall'.result = 0)]_vars

\* ------------------------------------------------------------------ C25
\* C25: a ProcessEnd call made when the AccessState exists goes through
\* WorkerWrite before it returns, whatever the activity, the instance and
\* the answer of the end-of-block hook; WorkerWrite puts the worker's
\* counter into the slot it has taken, and when ProcessEnd returns the slot
\* written last of the worker-to-control channel holds that counter.
C25_ProcessEndWrites ==
  /\ [][(wpc = "block" /\ wpc' # "block" /\ hasAccessState)
          => (wpc' = "ww_try" /\ lastCall'.op = "ProcessEnd")]_vars
  /\ [][(wpc = "ww_data" /\ wpc' # "ww_data")
          => /\ wpc' = "ww_last"
             /\ mChannelToMain'.data[wIdx].counter = mWorkerSettings.counter]_vars
  /\ [][(wpc \in WorkerWritePcs /\ wpc' = "idle")
          => /\ wpc = "ww_rel"
             /\ lastCall.op = "ProcessEnd"
             /\ mChannelToMain'.last = wIdx
             /\ mChannelToMain'.data[wIdx].counter = mWorkerSettings.counter]_vars
  /\ [][(wpc \in WorkerWritePcs) => (mWorkerSettings' = mWorkerSettings)]_vars

\* A ProcessEnd whose end-of-block hook has answered false and which has
\* published a counter that a Set made.
C25_Witness ==
  /\ wpc = "ww_rel"
  /\ lastCall.op = "ProcessEnd"
  /\ lastCall.called
  /\ ~lastCall.ret
  /\ mWorkerSettings.counter > 0
  /\ mChannelToMain.last = wIdx
  /\ mChannelToMain.data[wIdx].counter = mWorkerSettings.counter

\* A ProcessEnd of a state without a live instance has published as well.
ProcessEndWritesWithoutInstance ==
  /\ wpc = "ww_rel"
  /\ lastCall.op = "ProcessEnd"
  /\ ~instanceAlive
  /\ mChannelToMain.last = wIdx

\* ------------------------------------------------------------------ C26
\* C26: when Finalize has returned the state is not initialized and has no
\* latency, also when the instance no longer exists.
C26_FinalizeUninitializes ==
  lastCall.op = "Finalize" => (~mInitialized /\ mLatency = NoLatency)

\* What the code does hold to: a Finalize that finds the instance alive
\* leaves the state not initialized and without latency; one that finds it
\* gone leaves the flag and the latency as they were.
FinalizeUninitializesLiveInstance ==
  [][(scope # "none" /\ scope' = "none")
       => IF instanceAlive
          THEN ~mInitialized' /\ mLatency' = NoLatency
          ELSE mInitialized' = mInitialized /\ mLatency' = mLatency]_vars

\* A Flush between two scopes polls for the worker, the state having been
\* left initialized.
FlushPollsAfterFinalize ==
  /\ scope = "none"
  /\ lastCall.op = "Finalize"
  /\ cCall = "Flush"
  /\ cpc # "idle"
  /\ mInitialized

\* ------------------------------------------------------------------ C27
\* Steps that are a Finalize call.
FinalizeCalled == scope # "none" /\ scope' = "none"

\* C27: every Finalize, whatever realtime-finalize answers and also without
\* an instance, makes the main settings, contents and counter, equal to the
\* worker's settings, clears the groups of all tracks and sets the running
\* processor index to zero.
C27_FinalizeResets ==
  [][FinalizeCalled
       => /\ lastCall'.op = "Finalize"
          /\ mMainSettings' = mWorkerSettings
          /\ mWorkerSettings' = mWorkerSettings
          /\ \A t \in Tracks : mGroups'[t] = NoGroup
          /\ mCurrentProcessor' = 0]_vars

\* A Finalize whose realtime-finalize has reported failure.
C27_Witness ==
  /\ lastCall.op = "Finalize"
  /\ lastCall.called
  /\ ~lastCall.ret
  /\ scope = "none"
  /\ mMainSettings = mWorkerSettings
  /\ mCurrentProcessor = 0
  /\ \A t \in Tracks : ~mGroups[t].has

\* A state with a group recorded and the processor index advanced, which
\* Finalize may be called on.
GroupsBeforeFinalize ==
  /\ scope # "none"
  /\ cpc = "idle" /\ wpc = "idle"
  /\ mCurrentProcessor > 0
  /\ \E t \in Tracks : mGroups[t].has

\* ------------------------------------------------------------------ C28
\* Steps in which ProcessEnd computes what it returns.
ProcessEndCalled == wpc = "block" /\ wpc' # "block" /\ lastCall'.op = "ProcessEnd"

\* C28: a state for which no plugin was found is inert.  It has no instance,
\* is not initialized, has no groups and its processor index is zero, and
\* no call changes that; Initialize and AddTrack return no instance and
\* call neither realtime-initialize nor add-processor; ProcessStart and
\* ProcessEnd return false and call no hook; Process copies the input to the
\* output, calls no realtime-process and returns 0.
C28_InertWithoutPlugin ==
  /\ [](~mPlugin => /\ ~instanceAlive
                    /\ ~mInitialized
                    /\ mCurrentProcessor = 0
                    /\ \A t \in Tracks : mGroups[t] = NoGroup
                    /\ lastHook = "none"
                    /\ ~blockStarted)
  /\ [][(~mPlugin /\ InitializeCalled)
          => (~lastCall'.instance /\ ~lastCall'.init)]_vars
  /\ [][(~mPlugin /\ AddTrackCalled)
          => (~lastCall'.instance /\ ~lastCall'.init /\ lastCall'.answers = <<>>)]_vars
  /\ [][(~mPlugin /\ ProcessStartReturns)
          => (~lastCall'.ret /\ ~lastCall'.called /\ lastCall'.hook = "none")]_vars
  /\ [][(~mPlugin /\ ProcessEndCalled)
          => (~lastCall'.ret /\ ~lastCall'.called)]_vars
  /\ [][(~mPlugin /\ ProcessCalled)
          => (lastCall'.copied /\ lastCall'.hooks = 0 /\ lastCall'.result = 0)]_vars
  /\ [][(~mPlugin /\ FinalizeCalled) => (~lastCall'.ret /\ ~lastCall'.called)]_vars

\* A Process call that has passed frames through a state without plugin,
\* after an AddTrack in the scope that was of no effect.
C28_Witness ==
  /\ ~mPlugin
  /\ lastCall.op = "Process"
  /\ lastCall.copied
  /\ lastCall.chans > 0
  /\ lastCall.numSamples > 0
  /\ addsLeft = 0
  /\ scope = "processing"

\* ------------------------------------------------------------------ C29
\* C29: the transition hooks that an instance accepts alternate: a suspend
\* is not accepted by an instance whose last accepted hook was a suspend,
\* nor a resume by one whose last accepted hook was a resume.
C29_HooksAlternate ==
  [][(ProcessStartReturns /\ lastCall'.hookOk) => lastCall'.hook # lastHook]_vars

\* An instance that was suspended last is processed: ProcessStart has
\* returned true without a hook, and the state counts as active.
SuspendedInstanceProcessed ==
  /\ wpc = "block"
  /\ lastHook = "suspend"
  /\ lastCall.op = "ProcessStart"
  /\ lastCall.hook = "none"
  /\ lastCall.ret
  /\ mLastActive

\* ------------------------------------------------------------------ C30
\* The worker is inside ProcessStart, in its WorkerRead.
InsideProcessStart == wpc \in WorkerReadPcs /\ lastCall.op = "none"

ChunkWithinBlockSize == loop.pc = "chunk" => loop.cnt <= loop.blockSize

PointersFollowChunks ==
  loop.pc = "chunk" =>
    /\ \A k \in DOMAIN loop.clientIn :
         ~loop.clientIn[k].null => loop.clientIn[k].off = loop.sum
    /\ \A k \in DOMAIN loop.clientOut :
         ~loop.clientOut[k].null => loop.clientOut[k].off = loop.sum

ChunkLoopEnded == loop.pc = "chunk" /\ loop'.pc = "alloc"

ChunksSumToSampleCount == ChunkLoopEnded => loop.sum = loop.numSamples

ChunkLoopEnds == (loop.pc = "chunk") ~> (loop.pc # "chunk")

C31_ChunksCoverBlock ==
  /\ []ChunkWithinBlockSize
  /\ []PointersFollowChunks
  /\ [][ChunksSumToSampleCount]_vars
  /\ ChunkLoopEnds

\* The chunks are as claimed as far as the loop goes, and the loop ends when
\* the block size is not zero.
ChunksCoverBlockWhenSized ==
  /\ []ChunkWithinBlockSize
  /\ []PointersFollowChunks
  /\ [][ChunksSumToSampleCount]_vars
  /\ (loop.pc = "chunk" /\ loop.blockSize > 0) ~> (loop.pc # "chunk")

\* A block of more than one chunk has been processed to its end.
ChunkedBlockDone ==
  /\ loop.pc = "alloc" /\ loop.op = "Process" /\ loop.ondx > 0
  /\ loop.blockSize > 0 /\ loop.numSamples > loop.blockSize
  /\ loop.sum = loop.numSamples

\* The loop over blocks turns with a block size of zero.
ChunkOfNoFrames ==
  /\ loop.pc = "chunk" /\ loop.blockSize = 0 /\ loop.numSamples > 0
  /\ loop.calls > 1

\* ---------------------------------------------------------------- C32
\* C32: in Process, input slot k of the processor at input offset i points
\* at input channel (i + k) mod chans; output slot k of the processor at
\* output offset o points at output channel o + k when o + k < chans and is
\* null otherwise; so every output channel in [0, chans) is handed to
\* exactly one processor slot.
InputSlotsWrap ==
  /\ Len(loop.clientIn) = numAudioIn
  /\ \A k \in 0..(numAudioIn - 1) :
       /\ ~loop.clientIn[k + 1].null
       /\ loop.clientIn[k + 1].chan = (loop.indx + k) % loop.chans

OutputSlotsOrNull ==
  /\ Len(loop.clientOut) = numAudioOut
  /\ \A k \in 0..(numAudioOut - 1) :
       IF loop.ondx + k < loop.chans
       THEN /\ ~loop.clientOut[k + 1].null
            /\ loop.clientOut[k + 1].chan = loop.ondx + k
       ELSE loop.clientOut[k + 1].null

ProcessReturned == loop.pc = "done" /\ loop.op = "Process"

C32_SlotsPointAtChannels ==
  /\ loop.pc = "chunk" => InputSlotsWrap /\ OutputSlotsOrNull
  /\ loop.op = "Process" => \A c \in DOMAIN loop.given : loop.given[c] <= 1
  /\ ProcessReturned => \A c \in 1..loop.chans : loop.given[c] = 1

\* Process returned after a processor whose inputs began again at the first
\* channel and whose last output slot was null.
C32_Witness ==
  /\ ProcessReturned /\ loop.chans = 3
  /\ numAudioIn = 2 /\ numAudioOut = 2
  /\ loop.clientIn[1].chan = 2 /\ loop.clientIn[2].chan = 0
  /\ loop.clientOut[1].chan = 2 /\ loop.clientOut[2].null
  /\ \A c \in 1..3 : loop.given[c] = 1

\* ---------------------------------------------------------------- C33
\* C33: every Process call returns a discardable count between 0 and
\* sampleCount inclusive, the plugin never reporting more frames processed
\* than it was asked for, and within a scope the outstanding latency budget
\* never increases and never drops below zero.
DiscardableWithinBlock ==
  ProcessReturned => loop.result >= 0 /\ loop.result <= loop.numSamples

LatencyBudgetShrinks ==
  (mLatency.has /\ mLatency'.has) =>
    (mLatency'.left <= mLatency.left /\ mLatency'.left >= 0)

LatencyBudgetNotNegative == mLatency.has => mLatency.left >= 0

C33_DiscardableAndBudget ==
  /\ []DiscardableWithinBlock
  /\ []LatencyBudgetNotNegative
  /\ [][LatencyBudgetShrinks]_vars

\* Process returned in a later call of the scope some but not all of its
\* frames as discardable, the budget being used up by that.
C33_Witness ==
  /\ ProcessReturned /\ loop.callsLeft = 0
  /\ loop.result > 0 /\ loop.result < loop.numSamples
  /\ mLatency.has /\ mLatency.left = 0

\* ---------------------------------------------------------------- C34
\* C34: in every reachable state after the first MainRead, the counter last
\* observed by the control side <= the worker's counter <= the counter of
\* the last Set.  A MainRead leaves an observed counter that is at most the
\* worker's, no later step of either side ends that, and the worker's
\* counter is never above that of the last Set.
MainReadObserved == cpc = "mr_data" /\ cpc' = "mr_rel"

ObservedWithinWorker == mCounter <= mWorkerSettings.counter

WorkerWithinLastSet == mWorkerSettings.counter <= mLastSettings.counter

ObservedStaysWithinWorker ==
  /\ MainReadObserved => ObservedWithinWorker'
  /\ (hasAccessState /\ ObservedWithinWorker) => ObservedWithinWorker'

ObservedWithinLastSet == mCounter <= mLastSettings.counter

WorkerTakenBack ==
  /\ wpc = "wr_cmp"
  /\ mWorkerSettings'.counter < mWorkerSettings.counter

ObservedLeavesWorker ==
  (hasAccessState /\ ObservedWithinWorker /\ ~ObservedWithinWorker')
    => (WorkerTakenBack \/ MainReadObserved)

ObservedStaysWithinLastSet ==
  /\ MainReadObserved => ObservedWithinLastSet'
  /\ (hasAccessState /\ ObservedWithinLastSet) => ObservedWithinLastSet'

EndOfBlockJustStarted == ProcessEndCalled /\ lastCall.op = "ProcessStart"

EndOnlyAfterStart ==
  (EndOfBlockJustStarted /\ lastCall'.called) => lastCall.called

StartThenEnd ==
  (EndOfBlockJustStarted /\ lastCall.called /\ instanceAlive) => lastCall'.called

C35_BlockHooksBracketed ==
  /\ [][EndOnlyAfterStart]_vars
  /\ [][StartThenEnd]_vars

\* Every block begun with realtime-process-start is ended with
\* realtime-process-end, while the instance is alive.
StartedBlocksAreEnded == [][StartThenEnd]_vars

\* A block ended with realtime-process-end without a refused transition
\* hook in its ProcessStart was begun with realtime-process-start.
EndOnlyAfterStartUnlessRefused ==
  [][(EndOfBlockJustStarted /\ lastCall'.called)
       => (lastCall.called \/ (lastCall.hook # "none" /\ ~lastCall.hookOk))]_vars

\* ProcessEnd is about to invoke realtime-process-end in a block whose
\* ProcessStart returned after RealtimeSuspend failed.
EndWithoutStart ==
  /\ wpc = "block" /\ lastCall.op = "ProcessStart"
  /\ lastCall.hook = "suspend" /\ ~lastCall.hookOk /\ ~lastCall.called
  /\ ProcessEndCalls

\* ---------------------------------------------------------------- C36
\* C36: realtime-initialize and realtime-finalize are paired over any
\* sequence of Initialize, AddTrack and Finalize: realtime-finalize is
\* invoked only when a successful realtime-initialize has not yet been
\* finalized (mInitialized, set at line 302 and reset at line 550), and
\* realtime-initialize is never invoked a second time without a
\* realtime-finalize in between.
FinalizeOnlyInitialized ==
  (FinalizeCalled /\ lastCall'.called) => mInitialized

InitializeInvokedLast ==
  lastCall.op \in {"Initialize", "AddTrack"} /\ lastCall.init

InitializeNotRepeated ==
  (InitializeInvokedLast /\ (InitializeCalled \/ AddTrackCalled)) => ~lastCall'.init

C36_InitializeFinalizePaired ==
  /\ [][FinalizeOnlyInitialized]_vars
  /\ [][InitializeNotRepeated]_vars

\* Realtime-initialize is invoked only on a state not marked initialized,
\* so never again after it succeeded until Finalize.
InitializeOnlyUninitialized ==
  [][((InitializeCalled \/ AddTrackCalled) /\ lastCall'.init) => ~mInitialized]_vars

\* Finalize invokes realtime-finalize after a refused realtime-initialize.
FinalizeOfRefused ==
  /\ lastCall.op = "Finalize" /\ lastCall.called
  /\ scope = "none" /\ ~mInitialized /\ instanceAlive
  /\ mCurrentProcessor = 0

\* ---------------------------------------------------------------- C37
\* C37: AllocateChannelsToProcessors terminates for every channel count,
\* input arity and output arity an instance may declare, output arity 0
\* included, with a callback that always succeeds, so AddTrack and Process
\* always return and AddTrack adds only finitely many processors.  (The
\* loop over blocks inside Process's callback is taken with a block size
\* that lets it end, see C31.)
InAllocator ==
  /\ loop.pc = "alloc"
  /\ loop.op = "AddTrack" \/ loop.blockSize > 0

C37_AllocatorTerminates == InAllocator ~> (loop.pc = "done")

\* The allocator terminates whenever the output arity is not zero.
AllocatorTerminatesWithOutputs ==
  (InAllocator /\ numAudioOut > 0) ~> (loop.pc = "done")

\* AddTrack has added more processors than there are channels, and the
\* allocator is still at its first output.
ProcessorsWithoutEnd ==
  /\ loop.pc = "alloc" /\ loop.op = "AddTrack"
  /\ numAudioOut = 0 /\ loop.ondx = 0
  /\ mCurrentProcessor > loop.first + loop.chans

\* ---------------------------------------------------------------- C38
\* C38: Process never changes the per-track bookkeeping: the set of tracks
\* with a recorded group, each group's {first, sampleRate} and the running
\* processor index are the same after a Process call as before, also when
\* the call is for a track that AddTrack never added or failed to add.
C38_ProcessKeepsBookkeeping ==
  [][ProcessCalled =>
       (mGroups' = mGroups /\ mCurrentProcessor' = mCurrentProcessor)]_vars

\* Process changes nothing of the groups on record nor the running
\* processor index, and records no group when it processes trivially or the
\* track has one.
ProcessKeepsRecordedGroups ==
  [][ProcessCalled =>
       /\ mCurrentProcessor' = mCurrentProcessor
       /\ \A t \in Tracks : mGroups[t].has => mGroups'[t] = mGroups[t]
       /\ (lastCall'.copied \/ mGroups[lastCall'.track].has) => mGroups' = mGroups]_vars

\* Process has recorded a group for a track that AddTrack failed to add.
GroupOfTrackNotAdded ==
  /\ lastCall.op = "Process" /\ ~lastCall.copied
  /\ mGroups[lastCall.track].has
  /\ added[lastCall.track] = NotAdded

\* ---------------------------------------------------------------- C39
\* C39: once a plugin is bound and its settings are built, the main settings
\* hold a value in every reachable state, over any sequence of GetAccess,
\* Set, Flush, Initialize, AddTrack and Finalize, a Finalize on a state
\* never initialized included; hence GetAccess never falls back to the
\* dummy handle for a bound plugin.
MainSettingsBuilt == mPlugin /\ HasValue(mMainSettings.settings)

GetAccessReturned == cpc = "idle" /\ stateAlive /\ handle' # handle

C39_MainSettingsKeepValue ==
  /\ [][MainSettingsBuilt => HasValue(mMainSettings'.settings)]_vars
  /\ [][(GetAccessReturned /\ MainSettingsBuilt) => handle' # "dummy"]_vars

\* Only Finalize takes the value from the main settings, and only when the
\* worker's copy has none.
OnlyFinalizeTakesValue ==
  [][(MainSettingsBuilt /\ ~HasValue(mMainSettings'.settings))
       => (FinalizeCalled /\ ~HasValue(mWorkerSettings.settings))]_vars

\* GetAccess has returned the dummy handle for a bound plugin whose settings
\* were built, the AccessState being there.
DummyForBoundPlugin ==
  /\ mPlugin /\ hasAccessState /\ stateAlive
  /\ handle = "dummy"
  /\ ~HasValue(mMainSettings.settings)

\* ---------------------------------------------------------------- C40
\* C40: when Initialize, or the first AddTrack, starts a scope after Sets of
\* the control side, the settings passed to realtime-initialize and copied
\* into the worker's copy, which the add-processor calls before the first
\* ProcessStart use, are those of the most recent Set, also when Flush was
\* not called between that Set and Initialize.
ScopeInitialized ==
  /\ InitializeCalled \/ AddTrackCalled
  /\ lastCall'.init
  /\ hasAccessState

C40_InitializedWithLastSet ==
  [][ScopeInitialized => mWorkerSettings'.settings = mLastSettings.settings]_vars

\* The settings passed to realtime-initialize and copied to the worker are
\* the main settings, which are those of the last Set when a Flush has
\* published them.
InitializedWithMainSettings ==
  [][ScopeInitialized => mWorkerSettings' = mMainSettings]_vars

\* Initialize has passed to realtime-initialize settings older than those
\* of a Set that had returned.
InitializedWithOlderSettings ==
  /\ scope = "setup" /\ lastCall.op = "Initialize" /\ lastCall.init
  /\ hasAccessState /\ mLastSettings.counter > 0
  /\ mWorkerSettings.settings # mLastSettings.settings
  /\ mWorkerSettings = mMainSettings

====
